---------------------------- MODULE Spec2Model ----------------------------
(***************************************************************************)
(* Generation pipeline of the AI lesson planner.                           *)
(*                                                                         *)
(*   MultiAgentService.generate_lesson_content                             *)
(*     -> CoordinatorAgent.process                                         *)
(*          -> PlanAgent / ContentAgent / UDLAgent / DesignAgent /         *)
(*             AccessibilityAgent                                          *)
(*                                                                         *)
(* Three specifications share the variables below:                         *)
(*   Spec         one run of generate_lesson_content (the pipeline);       *)
(*   SpecTime     PlanAgent._calculate_gagne_time_distribution applied to  *)
(*                every request the LessonRequest model admits;            *)
(*   SpecContent  ContentAgent.process called with events and objectives   *)
(*                given either as dictionaries or as model objects.        *)
(*                                                                         *)
(* Time is counted in minutes (every deadline of the code is a multiple of *)
(* 60 seconds).  Scores are exact integers in units of 1/1200, so that     *)
(* 0.5, 0.53, 0.6, 0.7 and the means of three or four hundredths are all   *)
(* representable without rounding.                                         *)
(***************************************************************************)
EXTENDS Integers, Sequences, FiniteSets, TLC

VARIABLES
    svc,            \* generate_lesson_content: "idle" | "waiting" | "returned" | "raised"
    pc,             \* position of CoordinatorAgent.process
    elapsed,        \* minutes since generate_lesson_content called coordinator.process
    stage,          \* per stage: "pending" | "running" | "success" | "failed" |
                    \*            "timeout" | "cancelled"
    plan_failures,  \* the Plan generations whose gateway call failed on every attempt
    plan_data,      \* plan_result["data"] of the Plan stage
    content_data,   \* content_data of the Coordinator (phase 2)
    slides,         \* the Coordinator's local variable `slides`
    udl_data,       \* udl_data of the Coordinator (phase 3)
    design_data,    \* design_data of the Coordinator (phase 4)
    accessibility_data, \* accessibility_data of the Coordinator (phase 5)
    response,       \* what CoordinatorAgent.process returned
    request,        \* the LessonRequest handed to the time-allocation computation
    time_distribution, \* result of _calculate_gagne_time_distribution
    agent_input,    \* ContentAgent.process: forms of the input lists
    branch,         \* ContentAgent: per grouping state of _generate_slides_for_event
    agent_result,   \* ContentAgent.process: the returned response
    call,           \* BaseAgent._call_openai: the call in progress
    plan_run,       \* PlanAgent.process: the generation in progress and the
                    \* generations done
    gagne_event,    \* the GagneEvent handed to _generate_slides_for_event and its lesson_info
    slide_count,    \* result of _calculate_slide_count
    slide_run,      \* _create_ai_generated_slides: the pass in progress and the slides returned
    event_tasks,    \* generate_slides_for_all_events: per event, the task's result once it completed
    completed,      \* the events in the order in which their tasks completed
    slides_response, \* the GagneSlidesResponse the Coordinator holds
    slide_list,     \* the Coordinator's local variable slides, slide by slide
    validator_runs,  \* per validator phase that ran: its input, outcome and report
    objectives,     \* result of _create_comprehensive_fallback_objectives
    event_slide_tasks,  \* generate_slides_for_all_events: the task of each event
    content_wait,   \* minutes the Coordinator's wait_for has waited for the content phase
    content_by_event,  \* the Coordinator's content_data once phase 2 ended, event by event
    heap,           \* the list objects the slide dictionaries refer to, by address
    slide_dicts,    \* the list of slide dictionaries the validator was handed
    received,       \* the contents of slide_dicts when the validator was handed it
    enhanced_slides,  \* the list the validator's enhancement returned
    enhanced_by,    \* the validators that ran, oldest first
    gagne_events,   \* the list _generate_gagne_events returned
    generation_attempt,  \* attempt of the loop of _create_ai_generated_slides
    gateway_attempt,  \* attempt of the loop of _call_openai within that pass
    call_log,       \* the outcome of every call of client.chat.completions.create so far
    generation_result,  \* what _create_ai_generated_slides returned, or pending
    design_slides,  \* the slide dictionaries handed to _validate_crap_principles
    design_report  \* the DesignComplianceReport and the recommendations made from it

vars == <<svc, pc, elapsed, stage, plan_failures, plan_data, content_data,
          slides, udl_data, design_data, accessibility_data, response, request,
          time_distribution, agent_input, branch, agent_result, call,
          plan_run,
          gagne_event, slide_count, slide_run,
          event_tasks, completed, slides_response, slide_list, validator_runs,
          objectives,
          event_slide_tasks, content_wait, content_by_event,
          heap, slide_dicts, received, enhanced_slides, enhanced_by,
          gagne_events,
          generation_attempt, gateway_attempt, call_log, generation_result,
          design_slides, design_report>>

pipelineVars == <<svc, pc, elapsed, stage, plan_failures, plan_data,
                  content_data, slides, udl_data, design_data,
                  accessibility_data, response>>
timeVars     == <<request, time_distribution>>
contentVars  == <<agent_input, branch, agent_result>>
gatewayVars  == <<call, plan_run>>
slideVars    == <<gagne_event, slide_count, slide_run>>
mergeVars    == <<event_tasks, completed, slides_response, slide_list,
                  validator_runs>>
objectiveVars == <<objectives>>
fanoutVars   == <<event_slide_tasks, content_wait, content_by_event>>
enhanceVars  == <<heap, slide_dicts, received, enhanced_slides, enhanced_by>>
eventVars    == <<gagne_events>>
callVars     == <<generation_attempt, gateway_attempt, call_log, generation_result>>
designVars   == <<design_slides, design_report>>

-----------------------------------------------------------------------------
(* Deadlines, in minutes.                                                  *)

PlanTimeout          == 5     \* asyncio.wait_for(..., timeout=300)
ContentTimeout       == 5     \* asyncio.wait_for(..., timeout=300)
UDLTimeout           == 3     \* asyncio.wait_for(..., timeout=180)
DesignTimeout        == 3     \* asyncio.wait_for(..., timeout=180)
AccessibilityTimeout == 3     \* asyncio.wait_for(..., timeout=180)
ServiceTimeout       == 10    \* asyncio.wait_for(coordinator.process, timeout=600)

Stages == {"plan", "content", "udl", "design", "accessibility"}

(* Scores: 1.0 is 12 * 100 units.                                          *)
One       == 12 * 100
Half      == One \div 2              \* 0.5
Threshold == (7 * One) \div 10       \* 0.7

None == [kind |-> "none"]

Events == 1..9                       \* the nine instructional events

-----------------------------------------------------------------------------
(* The gateway: BaseAgent._call_openai.                                    *)

max_retries == 3

(* What one attempt can meet: a reply, or an exception (a transport error  *)
(* or an empty reply, which the code turns into ValueError).               *)
AttemptOutcomes == {"reply", "error"}

Attempts == [1..max_retries -> AttemptOutcomes]

(* The loop `for attempt in range(max_retries)`: the first attempt that    *)
(* gets a reply returns it; an exception on the last attempt is re-raised. *)
(* calls counts the requests sent.                                         *)
_call_openai(attempts) ==
    IF \E i \in 1..max_retries : attempts[i] = "reply"
    THEN [raised |-> FALSE,
          calls  |-> CHOOSE i \in 1..max_retries :
                        /\ attempts[i] = "reply"
                        /\ \A j \in 1..(i - 1) : attempts[j] = "error"]
    ELSE [raised |-> TRUE, calls |-> max_retries]

(* What a reply can be once the caller parses and validates it.            *)
Replies == {"valid", "invalid"}

-----------------------------------------------------------------------------
(* The Plan stage: PlanAgent.                                              *)

(* _generate_objectives: a gateway failure, an unparsable reply or a reply *)
(* that fails validation is caught and replaced by                         *)
(* _create_comprehensive_fallback_objectives.                              *)
_generate_objectives(attempts, reply) ==
    IF _call_openai(attempts).raised \/ reply = "invalid"
    THEN "fallback" ELSE "generated"

(* _generate_lesson_plan: the same, with _create_fallback_lesson_plan.     *)
_generate_lesson_plan(attempts, reply) ==
    IF _call_openai(attempts).raised \/ reply = "invalid"
    THEN "fallback" ELSE "generated"

(* _generate_gagne_events: the same, with _create_fallback_gagne_events    *)
(* (a reply with fewer than nine events is an invalid reply).              *)
_generate_gagne_events(attempts, reply) ==
    IF _call_openai(attempts).raised \/ reply = "invalid"
    THEN "fallback" ELSE "generated"

(* A Plan agent that answers with a failure response once a gateway call   *)
(* has failed on every attempt (the behaviour the code does not have).     *)
PlanAgentProcessFatal(a1, r1, a2, r2, a3, r3) ==
    [success |-> ~(_call_openai(a1).raised \/ _call_openai(a2).raised
                   \/ _call_openai(a3).raised),
     data    |-> [objectives   |-> _generate_objectives(a1, r1),
                  lesson_plan  |-> _generate_lesson_plan(a2, r2),
                  gagne_events |-> _generate_gagne_events(a3, r3)],
     exhausted |-> {k \in {"objectives", "lesson_plan", "gagne_events"} :
                      \/ k = "objectives"   /\ _call_openai(a1).raised
                      \/ k = "lesson_plan"  /\ _call_openai(a2).raised
                      \/ k = "gagne_events" /\ _call_openai(a3).raised}]

(* PlanAgent.process: the three generations in turn, then the success      *)
(* response; the catch-all of process is not reached by any of them.       *)
PlanAgentProcess(a1, r1, a2, r2, a3, r3) ==
    [success |-> TRUE,
     data    |-> [objectives   |-> _generate_objectives(a1, r1),
                  lesson_plan  |-> _generate_lesson_plan(a2, r2),
                  gagne_events |-> _generate_gagne_events(a3, r3)],
     exhausted |-> {k \in {"objectives", "lesson_plan", "gagne_events"} :
                      \/ k = "objectives"   /\ _call_openai(a1).raised
                      \/ k = "lesson_plan"  /\ _call_openai(a2).raised
                      \/ k = "gagne_events" /\ _call_openai(a3).raised}]

-----------------------------------------------------------------------------
(* The Content stage: ContentAgent.                                        *)

(* events and objectives reach the agent as dictionaries (event.dict(),    *)
(* obj.dict()) or as model objects.                                        *)
Forms == {"dict", "obj"}

(* What one pass of the generation loop of _create_ai_generated_slides     *)
(* meets:                                                                  *)
(*   slides       a reply that parses to slide_count slides;               *)
(*   wrong_count  a reply that parses to another number of slides;         *)
(*   retryable    JSONDecodeError, KeyError or ValueError (an unparsable   *)
(*                reply, or the gateway exhausted on empty replies);       *)
(*   fatal        any other exception (the gateway exhausted on errors).   *)
AttemptResults == {"slides", "wrong_count", "retryable", "fatal"}

GenerationRuns == [0..2 -> AttemptResults]

RECURSIVE generation_loop(_, _)
(* `for attempt in range(3)` of _create_ai_generated_slides, from pass     *)
(* `attempt` on, for an event given as an object.                          *)
generation_loop(run, attempt) ==
    CASE run[attempt] = "slides"      -> "generated"
      [] run[attempt] = "wrong_count" ->
            IF attempt < 2 THEN generation_loop(run, attempt + 1)
            ELSE "generated"
      [] run[attempt] = "retryable"   ->
            IF attempt < 2 THEN generation_loop(run, attempt + 1)
            ELSE "fallback"           \* _create_fallback_slides
      [] run[attempt] = "fatal"       -> "fallback"   \* the outer handler

(* _create_fallback_slides reads event.event_name and event.activities:    *)
(* AttributeError when the event is a dictionary.                          *)
_create_fallback_slides(event_form) ==
    IF event_form = "dict"
    THEN [raised |-> TRUE,  source |-> "none"]
    ELSE [raised |-> FALSE, source |-> "fallback"]

(* _create_ai_generated_slides: the prompt reads event.duration_minutes,   *)
(* event.materials_needed and event.assessment_strategy as attributes, so  *)
(* a dictionary event raises AttributeError before any gateway call; the   *)
(* outer handler then calls _create_fallback_slides.                       *)
_create_ai_generated_slides(event_form, run) ==
    IF event_form = "dict"
    THEN _create_fallback_slides(event_form)
    ELSE IF generation_loop(run, 0) = "generated"
         THEN [raised |-> FALSE, source |-> "generated"]
         ELSE _create_fallback_slides(event_form)

(* _extract_learning_outcomes reads obj.bloom_level.value: AttributeError  *)
(* when the objectives are dictionaries.                                   *)
_extract_learning_outcomes(objective_form) ==
    [raised |-> objective_form = "dict"]

(* _create_fallback_event_slides: two basic slides; it reads attributes of *)
(* the event, as does the log line of the handler that calls it.           *)
_create_fallback_event_slides(event_form) ==
    IF event_form = "dict"
    THEN [raised |-> TRUE,  source |-> "none"]
    ELSE [raised |-> FALSE, source |-> "fallback_event"]

(* _generate_slides_for_event: one grouping's branch.                      *)
_generate_slides_for_event(event_form, objective_form, run) ==
    LET made == _create_ai_generated_slides(event_form, run)
    IN  IF made.raised \/ _extract_learning_outcomes(objective_form).raised
        THEN _create_fallback_event_slides(event_form)
        ELSE made

(* Every result a branch can end with, per form of its inputs.             *)
BranchResults ==
    [f \in Forms \X Forms |->
        {_generate_slides_for_event(f[1], f[2], run) : run \in GenerationRuns}]

(* generate_slides_for_all_events and ContentAgent.process: asyncio.gather *)
(* re-raises the first exception of a branch, which process turns into an  *)
(* error response; otherwise the groupings are returned in input order.    *)
ContentAgentProcess(results) ==
    IF \E e \in Events : results[e].raised
    THEN [success |-> FALSE, data |-> None]
    ELSE [success |-> TRUE,
          data |-> [kind   |-> "content",
                    events |-> [e \in Events |-> results[e].source]]]

(* CoordinatorAgent._create_fallback_content: two fallback slides for      *)
(* every event.                                                            *)
_create_fallback_content ==
    [kind   |-> "content",
     events |-> [e \in Events |-> "coordinator_fallback"]]

(* The slides the Coordinator extracts from the content (its local         *)
(* variable `slides`): SlideContent objects, not yet enhanced.  Fallback   *)
(* slides of every kind carry udl_guidelines ["multiple_representation",   *)
(* "engagement"]; a generated slide carries what the reply gave it         *)
(* (modelled as none).  guideline_slides counts the slides that carry the  *)
(* two fallback guidelines (two per fallback grouping).                    *)
ExtractSlides(content) ==
    [form             |-> "objects",
     guideline_slides |-> 2 * Cardinality({e \in Events :
                                 content.events[e] # "generated"}),
     enhancements     |-> {}]

-----------------------------------------------------------------------------
(* The UDL stage: UDLAgent.                                                *)

UDLPrinciples == {"representation", "action_expression", "engagement"}

Number(v) == [kind |-> "number", value |-> v]
Text      == [kind |-> "text",   value |-> 0]

(* What the reply to a principle analysis can hold under "overall_score":  *)
(* a number (0.8, or 1.5 outside the range the prompt asks for), a value   *)
(* that is no number, or nothing; or the reply cannot be parsed.           *)
UDLReplies ==
    {[kind |-> "score", score |-> Number((4 * One) \div 5)],
     [kind |-> "score", score |-> Number((3 * One) \div 2)],
     [kind |-> "score", score |-> Text],
     [kind |-> "no_score", score |-> Text],
     [kind |-> "unparsable", score |-> Text]}

(* _calculate_basic_principle_score: min(1.0, implemented / 4), where      *)
(* implemented counts the guidelines of the slides whose name contains the *)
(* principle's name ("multiple_representation", "engagement").             *)
_calculate_basic_principle_score(slide_set, principle) ==
    LET implemented == IF principle \in {"representation", "engagement"}
                       THEN slide_set.guideline_slides ELSE 0
        quarter     == One \div 4
    IN  IF implemented * quarter < One THEN implemented * quarter ELSE One

(* _analyze_udl_principle_with_ai: the gateway call, then                  *)
(* analysis_result.get("overall_score", 0.5) returned as it is; any        *)
(* exception falls back to the basic score.                                *)
_analyze_udl_principle_with_ai(slide_set, principle, attempts, reply) ==
    IF _call_openai(attempts).raised \/ reply.kind = "unparsable"
    THEN Number(_calculate_basic_principle_score(slide_set, principle))
    ELSE IF reply.kind = "no_score" THEN Number(Half)
    ELSE reply.score

(* Every value one principle's score can take for a given slide count.     *)
PrincipleScores(slide_set, principle) ==
    {_analyze_udl_principle_with_ai(slide_set, principle, a, r) :
        a \in Attempts, r \in UDLReplies}

(* _generate_udl_recommendations: the nine guideline names are never among *)
(* the slides' udl_guidelines, so the four guideline recommendations are   *)
(* always made; the last three depend on the slides' guidelines.           *)
_generate_udl_recommendations(slide_set) ==
    <<"Add audio descriptions and visual alternatives for all content",
      "Include vocabulary definitions and multiple language support",
      "Provide alternative response methods and optimize tool access",
      "Add choice-based activities and relevant real-world examples">>
    \o (IF slide_set.guideline_slides = 0
        THEN <<"Implement multiple means of representation across all slides",
               "Add engagement strategies to increase student motivation">>
        ELSE <<>>)
    \o <<"Provide multiple means of action and expression for student responses">>

(* _calculate_udl_compliance: overall is the mean of the three scores; an  *)
(* exception (adding a score that is no number) gives the default report.  *)
_calculate_udl_compliance(slide_set, rep, act, eng) ==
    IF rep.kind = "text" \/ act.kind = "text" \/ eng.kind = "text"
    THEN [representation_score    |-> Half,
          action_expression_score |-> Half,
          engagement_score        |-> Half,
          overall_compliance      |-> Half,
          recommendations |-> <<"Unable to calculate compliance due to error">>]
    ELSE [representation_score    |-> rep.value,
          action_expression_score |-> act.value,
          engagement_score        |-> eng.value,
          overall_compliance      |-> (rep.value + act.value + eng.value) \div 3,
          recommendations |-> _generate_udl_recommendations(slide_set)]

(* _enhance_slides_with_udl: dictionaries; a principle scoring under 0.7   *)
(* has its enhancement applied to every slide.                             *)
_enhance_slides_with_udl(slide_set, report) ==
    [slide_set EXCEPT
        !.form = "dicts",
        !.enhancements = @ \cup
            {p \in UDLPrinciples :
                \/ p = "representation"    /\ report.representation_score < Threshold
                \/ p = "action_expression" /\ report.action_expression_score < Threshold
                \/ p = "engagement"        /\ report.engagement_score < Threshold}]

(* UDLAgent.process.                                                       *)
UDLAgentProcess(slide_set, rep, act, eng) ==
    LET report == _calculate_udl_compliance(slide_set, rep, act, eng)
    IN  [success |-> TRUE,
         data |-> [udl_compliance_report |-> report,
                   enhanced_slides |-> _enhance_slides_with_udl(slide_set, report),
                   recommendations |-> _generate_udl_recommendations(slide_set),
                   accessibility_features |-> {"alt_text", "keyboard_navigation"}]]

(* CoordinatorAgent._create_fallback_udl_compliance.                       *)
_create_fallback_udl_compliance ==
    [udl_compliance_report |->
        [representation_score    |-> (6 * One) \div 10,
         action_expression_score |-> Half,
         engagement_score        |-> Half,
         overall_compliance      |-> (53 * One) \div 100,
         recommendations |-> <<"Add audio descriptions and visual alternatives",
                               "Include vocabulary definitions",
                               "Provide alternative response methods">>],
     recommendations |-> <<"Implement multiple means of representation",
                           "Add engagement strategies",
                           "Provide multiple means of action and expression">>,
     accessibility_features |-> {"alt_text", "keyboard_navigation"}]

-----------------------------------------------------------------------------
(* The Design stage: DesignAgent (text heuristics, no gateway call).       *)

(* What the four heuristics (_validate_contrast, _validate_repetition,     *)
(* _validate_alignment, _validate_proximity) return for the slides: each a *)
(* mean of per-slide checks.  Two sets of slides are told apart: two       *)
(* untitled slides, one of a sentence and one of two paragraphs, scoring   *)
(* 0.05, 0.25, 0.3 and 0.35; and the single slide of two paragraphs,       *)
(* scoring 0.05, 1.0 (nothing to compare it with), 0.3 and 0.4.            *)
DesignHeuristics ==
    {[contrast |-> One \div 20, repetition |-> One \div 4,
      alignment |-> (3 * One) \div 10, proximity |-> (7 * One) \div 20],
     [contrast |-> One \div 20, repetition |-> One,
      alignment |-> (3 * One) \div 10, proximity |-> (2 * One) \div 5]}

InUnitRange(v) == 0 <= v /\ v <= One

(* _validate_crap_principles: overall is the mean of the four scores; the  *)
(* report model rejects a score outside [0, 1] (Field(ge=0.0, le=1.0)),    *)
(* and the handler then returns the all-zero report.                       *)
_validate_crap_principles(h) ==
    LET overall == (h.contrast + h.repetition + h.alignment + h.proximity) \div 4
    IN  IF /\ InUnitRange(h.contrast)  /\ InUnitRange(h.repetition)
           /\ InUnitRange(h.alignment) /\ InUnitRange(h.proximity)
        THEN [contrast_score  |-> h.contrast,  repetition_score |-> h.repetition,
              alignment_score |-> h.alignment, proximity_score  |-> h.proximity,
              overall_score   |-> overall]
        ELSE [contrast_score  |-> 0, repetition_score |-> 0,
              alignment_score |-> 0, proximity_score  |-> 0,
              overall_score   |-> 0]

(* _generate_design_recommendations: four catalogue entries for every      *)
(* principle scoring under 0.7.                                            *)
_generate_design_recommendations(report) ==
    (IF report.contrast_score < Threshold
     THEN <<"Improve color contrast between text and background",
            "Ensure minimum font size of 12pt for body text",
            "Use high contrast color combinations (black on white, dark blue on light blue)",
            "Avoid red-green color combinations for colorblind accessibility">>
     ELSE <<>>)
    \o (IF report.repetition_score < Threshold
        THEN <<"Maintain consistent font family across all slides",
               "Use consistent heading styles and sizes",
               "Apply uniform spacing and margins",
               "Keep bullet point styles consistent throughout">>
        ELSE <<>>)
    \o (IF report.alignment_score < Threshold
        THEN <<"Align all text elements consistently (left, center, or right)",
               "Use a grid system for element placement",
               "Maintain consistent margins and padding",
               "Create clear visual hierarchy with headings">>
        ELSE <<>>)
    \o (IF report.proximity_score < Threshold
        THEN <<"Group related content elements together",
               "Use white space to separate different sections",
               "Ensure logical flow of information",
               "Group similar items in lists or sections">>
        ELSE <<>>)

(* _enhance_slides_with_design: dictionaries; a principle scoring under    *)
(* 0.7 has its enhancement applied to every slide.                         *)
_enhance_slides_with_design(slide_set, report) ==
    [slide_set EXCEPT
        !.form = "dicts",
        !.enhancements = @ \cup
            {p \in {"contrast", "repetition", "alignment", "proximity"} :
                \/ p = "contrast"   /\ report.contrast_score < Threshold
                \/ p = "repetition" /\ report.repetition_score < Threshold
                \/ p = "alignment"  /\ report.alignment_score < Threshold
                \/ p = "proximity"  /\ report.proximity_score < Threshold}]

(* DesignAgent.process: an empty slide list is the only error response.    *)
DesignAgentProcess(slide_set, h) ==
    LET report == _validate_crap_principles(h)
    IN  [success |-> TRUE,
         data |-> [design_compliance_report |-> report,
                   enhanced_slides |-> _enhance_slides_with_design(slide_set, report),
                   recommendations |-> _generate_design_recommendations(report)]]

(* CoordinatorAgent._create_fallback_design_compliance.                    *)
_create_fallback_design_compliance ==
    [design_compliance_report |->
        [contrast_score  |-> Half, repetition_score |-> Half,
         alignment_score |-> Half, proximity_score  |-> Half,
         overall_score   |-> Half],
     recommendations |-> <<"Implement basic C.R.A.P. design principles">>]

-----------------------------------------------------------------------------
(* The Accessibility stage: AccessibilityAgent (heuristics, no gateway).   *)

(* What _validate_perceivable, _validate_operable, _validate_understandable *)
(* and _validate_robust return for the slides.                             *)
AccessibilityHeuristics ==
    {[perceivable |-> One \div 2, operable |-> One \div 4,
      understandable |-> (3 * One) \div 5, robust |-> (2 * One) \div 5],
     [perceivable |-> (9 * One) \div 10, operable |-> (4 * One) \div 5,
      understandable |-> One, robust |-> (7 * One) \div 10]}

(* _validate_wcag_compliance: overall is the mean of the four scores; the  *)
(* report model rejects a score outside [0, 1], and the handler then       *)
(* returns the all-zero report.                                            *)
_validate_wcag_compliance(h) ==
    LET overall == (h.perceivable + h.operable + h.understandable + h.robust) \div 4
    IN  IF /\ InUnitRange(h.perceivable)    /\ InUnitRange(h.operable)
           /\ InUnitRange(h.understandable) /\ InUnitRange(h.robust)
        THEN [perceivable_score    |-> h.perceivable,
              operable_score       |-> h.operable,
              understandable_score |-> h.understandable,
              robust_score         |-> h.robust,
              overall_score        |-> overall]
        ELSE [perceivable_score |-> 0, operable_score |-> 0,
              understandable_score |-> 0, robust_score |-> 0,
              overall_score |-> 0]

(* _generate_accessibility_recommendations: five catalogue entries for     *)
(* every principle scoring under 0.7.                                      *)
_generate_accessibility_recommendations(report) ==
    (IF report.perceivable_score < Threshold
     THEN <<"Add alt text to all images and visual elements",
            "Ensure color contrast meets WCAG AA standards (4.5:1 for normal text)",
            "Provide text alternatives for audio content",
            "Use semantic HTML structure with proper headings",
            "Ensure text can be resized up to 200% without loss of functionality">>
     ELSE <<>>)
    \o (IF report.operable_score < Threshold
        THEN <<"Ensure all interactive elements are keyboard accessible",
               "Provide visible focus indicators for keyboard navigation",
               "Avoid content that flashes more than 3 times per second",
               "Provide skip links for long content",
               "Ensure all functionality is available via keyboard">>
        ELSE <<>>)
    \o (IF report.understandable_score < Threshold
        THEN <<"Use clear, simple language appropriate for the audience",
               "Provide consistent navigation and interface elements",
               "Include error messages that clearly identify the problem",
               "Use descriptive labels for form elements",
               "Provide help text for complex interactions">>
        ELSE <<>>)
    \o (IF report.robust_score < Threshold
        THEN <<"Use valid, semantic HTML markup",
               "Ensure compatibility with assistive technologies",
               "Test with screen readers and other accessibility tools",
               "Provide fallback content for dynamic elements",
               "Use ARIA labels where appropriate">>
        ELSE <<>>)

(* _enhance_slides_with_accessibility: dictionaries; a principle scoring   *)
(* under 0.7 has its enhancement applied to every slide.                   *)
_enhance_slides_with_accessibility(slide_set, report) ==
    [slide_set EXCEPT
        !.form = "dicts",
        !.enhancements = @ \cup
            {p \in {"perceivable", "operable", "understandable", "robust"} :
                \/ p = "perceivable"    /\ report.perceivable_score < Threshold
                \/ p = "operable"       /\ report.operable_score < Threshold
                \/ p = "understandable" /\ report.understandable_score < Threshold
                \/ p = "robust"         /\ report.robust_score < Threshold}]

(* AccessibilityAgent.process.                                             *)
AccessibilityAgentProcess(slide_set, h) ==
    LET report == _validate_wcag_compliance(h)
    IN  [success |-> TRUE,
         data |-> [accessibility_compliance_report |-> report,
                   enhanced_slides |->
                       _enhance_slides_with_accessibility(slide_set, report),
                   recommendations |->
                       _generate_accessibility_recommendations(report)]]

(* CoordinatorAgent._create_fallback_accessibility_compliance.             *)
_create_fallback_accessibility_compliance ==
    [accessibility_compliance_report |->
        [perceivable_score    |-> Half, operable_score |-> Half,
         understandable_score |-> Half, robust_score   |-> Half,
         overall_score        |-> Half],
     recommendations |-> <<"Implement basic WCAG accessibility guidelines">>]

-----------------------------------------------------------------------------
(* Responses: BaseAgent._create_success_response / _create_error_response. *)

NoResponse == [returned |-> FALSE, success |-> FALSE]

_create_success_response(data, metadata) ==
    [returned |-> TRUE, success |-> TRUE, data |-> data, metadata |-> metadata]

_create_error_response(error) ==
    [returned |-> TRUE, success |-> FALSE, error |-> error]

-----------------------------------------------------------------------------
(* The pipeline: MultiAgentService.generate_lesson_content and             *)
(* CoordinatorAgent.process.  An action runs the code from one suspension  *)
(* point (the await of a stage under asyncio.wait_for) to the next.        *)

Init ==
    /\ design_slides = None
    /\ design_report = None
    /\ generation_attempt = None
    /\ gateway_attempt = None
    /\ call_log = None
    /\ generation_result = None
    /\ gagne_events = None
    /\ heap = None
    /\ slide_dicts = None
    /\ received = None
    /\ enhanced_slides = None
    /\ enhanced_by = None
    /\ event_slide_tasks = None
    /\ content_wait = None
    /\ content_by_event = None
    /\ objectives = None
    /\ event_tasks = None
    /\ completed = None
    /\ slides_response = None
    /\ slide_list = None
    /\ validator_runs = None
    /\ gagne_event = None
    /\ slide_count = None
    /\ slide_run = None
    /\ svc = "idle"
    /\ pc = "start"
    /\ elapsed = 0
    /\ stage = [s \in Stages |-> "pending"]
    /\ plan_failures = {}
    /\ plan_data = None
    /\ content_data = None
    /\ slides = None
    /\ udl_data = None
    /\ design_data = None
    /\ accessibility_data = None
    /\ response = NoResponse
    /\ request = None
    /\ time_distribution = None
    /\ agent_input = None
    /\ branch = None
    /\ agent_result = None
    /\ call = None
    /\ plan_run = None

(* A stage awaited under a deadline of `timeout` minutes returns after d   *)
(* minutes when d is short of both the stage's and the service's deadline. *)
InTime(d, timeout) ==
    /\ d < timeout
    /\ elapsed + d < ServiceTimeout

(* The stage's own deadline expires before the service's.                  *)
CutOff(timeout) == elapsed + timeout < ServiceTimeout

(* generate_lesson_content calls coordinator.process under the service     *)
(* deadline; process starts the Plan stage under its deadline.             *)
Generate ==
    /\ svc = "idle"
    /\ svc' = "waiting"
    /\ pc' = "plan"
    /\ stage' = [stage EXCEPT !.plan = "running"]
    /\ UNCHANGED <<elapsed, plan_failures, plan_data, content_data, slides,
                   udl_data, design_data, accessibility_data, response>>
    /\ UNCHANGED <<timeVars, contentVars, gatewayVars, slideVars, mergeVars, objectiveVars, fanoutVars, enhanceVars, eventVars, callVars, designVars>>

(* Every response the Plan agent can return.                               *)
PlanResults ==
    {PlanAgentProcess(a1, r1, a2, r2, a3, r3) :
        a1 \in Attempts, r1 \in Replies, a2 \in Attempts, r2 \in Replies,
        a3 \in Attempts, r3 \in Replies}

(* Phase 1 returns in time: a failure response aborts the run, a success   *)
(* response starts the Content stage.                                      *)
PlanReturns ==
    /\ svc = "waiting" /\ pc = "plan"
    /\ \E d \in 0..PlanTimeout, plan_result \in PlanResults :
        /\ InTime(d, PlanTimeout)
        /\ elapsed' = elapsed + d
        /\ plan_failures' = plan_result.exhausted
        /\ IF ~plan_result.success
           THEN /\ stage' = [stage EXCEPT !.plan = "failed"]
                /\ response' = _create_error_response("Plan phase failed")
                /\ pc' = "done"
                /\ UNCHANGED plan_data
           ELSE /\ plan_data' = plan_result.data
                /\ stage' = [stage EXCEPT !.plan = "success", !.content = "running"]
                /\ pc' = "content"
                /\ UNCHANGED response
    /\ UNCHANGED <<svc, content_data, slides, udl_data, design_data,
                   accessibility_data>>
    /\ UNCHANGED <<timeVars, contentVars, gatewayVars, slideVars, mergeVars, objectiveVars, fanoutVars, enhanceVars, eventVars, callVars, designVars>>

(* A Plan deadline handled like a validator's: the run goes on to the      *)
(* Content stage without a plan.                                           *)
PlanDeadlineContinues ==
    /\ svc = "waiting" /\ pc = "plan"
    /\ CutOff(PlanTimeout)
    /\ elapsed' = elapsed + PlanTimeout
    /\ stage' = [stage EXCEPT !.plan = "timeout", !.content = "running"]
    /\ pc' = "content"
    /\ UNCHANGED <<svc, plan_failures, plan_data, content_data, slides,
                   udl_data, design_data, accessibility_data, response>>
    /\ UNCHANGED <<timeVars, contentVars, gatewayVars, slideVars, mergeVars, objectiveVars, fanoutVars, enhanceVars, eventVars, callVars, designVars>>

(* Phase 1 exceeds its deadline: asyncio.TimeoutError is turned into an    *)
(* exception, which the catch-all of process turns into an error response. *)
PlanDeadline ==
    /\ svc = "waiting" /\ pc = "plan"
    /\ CutOff(PlanTimeout)
    /\ elapsed' = elapsed + PlanTimeout
    /\ stage' = [stage EXCEPT !.plan = "timeout"]
    /\ response' = _create_error_response("Plan generation timed out")
    /\ pc' = "done"
    /\ UNCHANGED <<svc, plan_failures, plan_data, content_data, slides,
                   udl_data, design_data, accessibility_data>>
    /\ UNCHANGED <<timeVars, contentVars, gatewayVars, slideVars, mergeVars, objectiveVars, fanoutVars, enhanceVars, eventVars, callVars, designVars>>

(* _execute_content_phase hands the agent event.dict() and obj.dict().     *)
_execute_content_phase(results) == ContentAgentProcess(results)

PipelineBranchResults == BranchResults[<<"dict", "dict">>]

(* Phase 2 returns in time: a failure response is replaced by the fallback *)
(* content; the slides are extracted and the UDL stage starts.             *)
ContentReturns ==
    /\ svc = "waiting" /\ pc = "content"
    /\ \E d \in 0..ContentTimeout, results \in [Events -> PipelineBranchResults] :
        LET content_result == _execute_content_phase(results)
            data == IF content_result.success THEN content_result.data
                    ELSE _create_fallback_content
        IN  /\ InTime(d, ContentTimeout)
            /\ elapsed' = elapsed + d
            /\ content_data' = data
            /\ slides' = ExtractSlides(data)
            /\ stage' = [stage EXCEPT
                            !.content = IF content_result.success
                                        THEN "success" ELSE "failed",
                            !.udl = "running"]
    /\ pc' = "udl"
    /\ UNCHANGED <<svc, plan_failures, plan_data, udl_data, design_data,
                   accessibility_data, response>>
    /\ UNCHANGED <<timeVars, contentVars, gatewayVars, slideVars, mergeVars, objectiveVars, fanoutVars, enhanceVars, eventVars, callVars, designVars>>

(* A Content deadline handled like the Plan's: the run is aborted.         *)
ContentDeadlineAborts ==
    /\ svc = "waiting" /\ pc = "content"
    /\ CutOff(ContentTimeout)
    /\ elapsed' = elapsed + ContentTimeout
    /\ stage' = [stage EXCEPT !.content = "timeout"]
    /\ response' = _create_error_response("Content generation timed out")
    /\ pc' = "done"
    /\ UNCHANGED <<svc, plan_failures, plan_data, content_data, slides,
                   udl_data, design_data, accessibility_data>>
    /\ UNCHANGED <<timeVars, contentVars, gatewayVars, slideVars, mergeVars, objectiveVars, fanoutVars, enhanceVars, eventVars, callVars, designVars>>

(* Phase 2 exceeds its deadline: the fallback content is used.             *)
ContentDeadline ==
    /\ svc = "waiting" /\ pc = "content"
    /\ CutOff(ContentTimeout)
    /\ elapsed' = elapsed + ContentTimeout
    /\ content_data' = _create_fallback_content
    /\ slides' = ExtractSlides(_create_fallback_content)
    /\ stage' = [stage EXCEPT !.content = "timeout", !.udl = "running"]
    /\ pc' = "udl"
    /\ UNCHANGED <<svc, plan_failures, plan_data, udl_data, design_data,
                   accessibility_data, response>>
    /\ UNCHANGED <<timeVars, contentVars, gatewayVars, slideVars, mergeVars, objectiveVars, fanoutVars, enhanceVars, eventVars, callVars, designVars>>

(* Phase 3 returns in time: a failure response is replaced by the fallback *)
(* report; on success the enhanced slides replace the slides.              *)
UDLReturns ==
    /\ svc = "waiting" /\ pc = "udl"
    /\ \E d \in 0..UDLTimeout,
          rep \in PrincipleScores(slides, "representation"),
          act \in PrincipleScores(slides, "action_expression"),
          eng \in PrincipleScores(slides, "engagement") :
        LET udl_result == UDLAgentProcess(slides, rep, act, eng)
        IN  /\ InTime(d, UDLTimeout)
            /\ elapsed' = elapsed + d
            /\ IF ~udl_result.success
               THEN /\ udl_data' = _create_fallback_udl_compliance
                    /\ stage' = [stage EXCEPT !.udl = "failed", !.design = "running"]
                    /\ UNCHANGED slides
               ELSE /\ udl_data' = udl_result.data
                    /\ stage' = [stage EXCEPT !.udl = "success", !.design = "running"]
                    /\ slides' = udl_result.data.enhanced_slides
    /\ pc' = "design"
    /\ UNCHANGED <<svc, plan_failures, plan_data, content_data, design_data,
                   accessibility_data, response>>
    /\ UNCHANGED <<timeVars, contentVars, gatewayVars, slideVars, mergeVars, objectiveVars, fanoutVars, enhanceVars, eventVars, callVars, designVars>>

(* A UDL deadline answered by invoking the UDL stage once more.            *)
UDLDeadlineRetries ==
    /\ svc = "waiting" /\ pc = "udl"
    /\ CutOff(UDLTimeout)
    /\ elapsed' = elapsed + UDLTimeout
    /\ stage' = [stage EXCEPT !.udl = "timeout"]
    /\ pc' = "udl"
    /\ UNCHANGED <<svc, plan_failures, plan_data, content_data, slides,
                   udl_data, design_data, accessibility_data, response>>
    /\ UNCHANGED <<timeVars, contentVars, gatewayVars, slideVars, mergeVars, objectiveVars, fanoutVars, enhanceVars, eventVars, callVars, designVars>>

(* Phase 3 exceeds its deadline: the fallback report is used.              *)
UDLDeadline ==
    /\ svc = "waiting" /\ pc = "udl"
    /\ CutOff(UDLTimeout)
    /\ elapsed' = elapsed + UDLTimeout
    /\ udl_data' = _create_fallback_udl_compliance
    /\ stage' = [stage EXCEPT !.udl = "timeout", !.design = "running"]
    /\ pc' = "design"
    /\ UNCHANGED <<svc, plan_failures, plan_data, content_data, slides,
                   design_data, accessibility_data, response>>
    /\ UNCHANGED <<timeVars, contentVars, gatewayVars, slideVars, mergeVars, objectiveVars, fanoutVars, enhanceVars, eventVars, callVars, designVars>>

(* Phase 4 returns in time.                                                *)
DesignReturns ==
    /\ svc = "waiting" /\ pc = "design"
    /\ \E d \in 0..DesignTimeout, h \in DesignHeuristics :
        LET design_result == DesignAgentProcess(slides, h)
        IN  /\ InTime(d, DesignTimeout)
            /\ elapsed' = elapsed + d
            /\ IF ~design_result.success
               THEN /\ design_data' = _create_fallback_design_compliance
                    /\ stage' = [stage EXCEPT !.design = "failed",
                                              !.accessibility = "running"]
                    /\ UNCHANGED slides
               ELSE /\ design_data' = design_result.data
                    /\ stage' = [stage EXCEPT !.design = "success",
                                              !.accessibility = "running"]
                    /\ slides' = design_result.data.enhanced_slides
    /\ pc' = "accessibility"
    /\ UNCHANGED <<svc, plan_failures, plan_data, content_data, udl_data,
                   accessibility_data, response>>
    /\ UNCHANGED <<timeVars, contentVars, gatewayVars, slideVars, mergeVars, objectiveVars, fanoutVars, enhanceVars, eventVars, callVars, designVars>>

(* Phase 4 exceeds its deadline: the fallback report is used.              *)
DesignDeadline ==
    /\ svc = "waiting" /\ pc = "design"
    /\ CutOff(DesignTimeout)
    /\ elapsed' = elapsed + DesignTimeout
    /\ design_data' = _create_fallback_design_compliance
    /\ stage' = [stage EXCEPT !.design = "timeout", !.accessibility = "running"]
    /\ pc' = "accessibility"
    /\ UNCHANGED <<svc, plan_failures, plan_data, content_data, slides,
                   udl_data, accessibility_data, response>>
    /\ UNCHANGED <<timeVars, contentVars, gatewayVars, slideVars, mergeVars, objectiveVars, fanoutVars, enhanceVars, eventVars, callVars, designVars>>

(* An aggregation that leaves the accessibility report out of the result.  *)
AggregateResultNoAccessibility(plan, content, slide_set, udl, design, accessibility) ==
    [lesson_plan |-> [objectives   |-> plan.objectives,
                      lesson_plan  |-> plan.lesson_plan,
                      gagne_events |-> plan.gagne_events],
     content |-> [gagne_slides_response |-> content,
                  enhanced_slides       |-> slide_set],
     udl_compliance    |-> udl.udl_compliance_report,
     design_compliance |-> design.design_compliance_report,
     recommendations               |-> udl.recommendations,
     design_recommendations        |-> design.recommendations,
     accessibility_recommendations |-> accessibility.recommendations,
     accessibility_features        |-> udl.accessibility_features]

(* The aggregation at the end of process: the result and its metadata.     *)
AggregateResult(plan, content, slide_set, udl, design, accessibility) ==
    [lesson_plan |-> [objectives   |-> plan.objectives,
                      lesson_plan  |-> plan.lesson_plan,
                      gagne_events |-> plan.gagne_events],
     content |-> [gagne_slides_response |-> content,
                  enhanced_slides       |-> slide_set],
     udl_compliance           |-> udl.udl_compliance_report,
     design_compliance        |-> design.design_compliance_report,
     accessibility_compliance |-> accessibility.accessibility_compliance_report,
     recommendations               |-> udl.recommendations,
     design_recommendations        |-> design.recommendations,
     accessibility_recommendations |-> accessibility.recommendations,
     accessibility_features        |-> udl.accessibility_features]

AggregateMetadata ==
    [phases_completed |-> <<"plan", "content", "udl", "design", "accessibility">>]

(* Phase 5 returns in time; process aggregates and returns success.        *)
AccessibilityReturns ==
    /\ svc = "waiting" /\ pc = "accessibility"
    /\ \E d \in 0..AccessibilityTimeout, h \in AccessibilityHeuristics :
        LET accessibility_result == AccessibilityAgentProcess(slides, h)
            data   == IF accessibility_result.success
                      THEN accessibility_result.data
                      ELSE _create_fallback_accessibility_compliance
            final  == IF accessibility_result.success
                      THEN accessibility_result.data.enhanced_slides
                      ELSE slides
        IN  /\ InTime(d, AccessibilityTimeout)
            /\ elapsed' = elapsed + d
            /\ accessibility_data' = data
            /\ slides' = final
            /\ stage' = [stage EXCEPT
                            !.accessibility = IF accessibility_result.success
                                              THEN "success" ELSE "failed"]
            /\ response' = _create_success_response(
                              AggregateResult(plan_data, content_data, final,
                                              udl_data, design_data, data),
                              AggregateMetadata)
    /\ pc' = "done"
    /\ UNCHANGED <<svc, plan_failures, plan_data, content_data, udl_data,
                   design_data>>
    /\ UNCHANGED <<timeVars, contentVars, gatewayVars, slideVars, mergeVars, objectiveVars, fanoutVars, enhanceVars, eventVars, callVars, designVars>>

(* Phase 5 exceeds its deadline: the fallback report is used; process      *)
(* aggregates and returns success.                                         *)
AccessibilityDeadline ==
    /\ svc = "waiting" /\ pc = "accessibility"
    /\ CutOff(AccessibilityTimeout)
    /\ elapsed' = elapsed + AccessibilityTimeout
    /\ accessibility_data' = _create_fallback_accessibility_compliance
    /\ stage' = [stage EXCEPT !.accessibility = "timeout"]
    /\ response' = _create_success_response(
                      AggregateResult(plan_data, content_data, slides, udl_data,
                                      design_data,
                                      _create_fallback_accessibility_compliance),
                      AggregateMetadata)
    /\ pc' = "done"
    /\ UNCHANGED <<svc, plan_failures, plan_data, content_data, slides,
                   udl_data, design_data>>
    /\ UNCHANGED <<timeVars, contentVars, gatewayVars, slideVars, mergeVars, objectiveVars, fanoutVars, enhanceVars, eventVars, callVars, designVars>>

(* The deadline of the stage process is waiting for.                       *)
StageTimeout(s) ==
    CASE s = "plan"          -> PlanTimeout
      [] s = "content"       -> ContentTimeout
      [] s = "udl"           -> UDLTimeout
      [] s = "design"        -> DesignTimeout
      [] s = "accessibility" -> AccessibilityTimeout

(* A service that builds a LessonResponse from whatever process returned   *)
(* (the behaviour the code does not have).                                 *)
ServiceReturnsUnchecked ==
    /\ svc = "waiting" /\ pc = "done"
    /\ svc' = "returned"
    /\ UNCHANGED <<pc, elapsed, stage, plan_failures, plan_data, content_data,
                   slides, udl_data, design_data, accessibility_data, response>>
    /\ UNCHANGED <<timeVars, contentVars, gatewayVars, slideVars, mergeVars, objectiveVars, fanoutVars, enhanceVars, eventVars, callVars, designVars>>

(* coordinator.process returned: a failure response is raised as an error, *)
(* a success response becomes the LessonResponse.                          *)
ServiceReturns ==
    /\ svc = "waiting" /\ pc = "done"
    /\ svc' = IF response.success THEN "returned" ELSE "raised"
    /\ UNCHANGED <<pc, elapsed, stage, plan_failures, plan_data, content_data,
                   slides, udl_data, design_data, accessibility_data, response>>
    /\ UNCHANGED <<timeVars, contentVars, gatewayVars, slideVars, mergeVars, objectiveVars, fanoutVars, enhanceVars, eventVars, callVars, designVars>>

(* The service deadline expires while process waits for a stage that can   *)
(* still be running then: process is cancelled and the service raises      *)
(* "Request timeout".                                                      *)
ServiceDeadline ==
    /\ svc = "waiting" /\ pc \in Stages
    /\ elapsed + StageTimeout(pc) >= ServiceTimeout
    /\ elapsed' = ServiceTimeout
    /\ stage' = [stage EXCEPT ![pc] = "cancelled"]
    /\ pc' = "cancelled"
    /\ svc' = "raised"
    /\ UNCHANGED <<plan_failures, plan_data, content_data, slides, udl_data,
                   design_data, accessibility_data, response>>
    /\ UNCHANGED <<timeVars, contentVars, gatewayVars, slideVars, mergeVars, objectiveVars, fanoutVars, enhanceVars, eventVars, callVars, designVars>>

Next ==
    \/ Generate
    \/ PlanReturns
    \/ PlanDeadline
    \/ ContentReturns
    \/ ContentDeadline
    \/ UDLReturns
    \/ UDLDeadline
    \/ DesignReturns
    \/ DesignDeadline
    \/ AccessibilityReturns
    \/ AccessibilityDeadline
    \/ ServiceReturns
    \/ ServiceDeadline

Spec == Init /\ [][Next]_vars

-----------------------------------------------------------------------------
(* The time allocation: PlanAgent._calculate_gagne_time_distribution.      *)

MaxDuration == 480        \* LessonRequest.duration_minutes: gt=0, le=480

BloomLevels ==
    {"remember", "understand", "apply", "analyze", "evaluate", "create"}
practical_levels   == {"apply", "analyze", "evaluate", "create"}
theoretical_levels == {"remember", "understand"}

GradeLevels ==
    {"freshman", "sophomore", "junior", "senior", "masters", "postgrad"}

(* Every request the LessonRequest model admits, as far as the computation *)
(* reads it.                                                               *)
Requests ==
    [duration_minutes      : 1..MaxDuration,
     selected_bloom_levels : (SUBSET BloomLevels) \ {{}},
     grade_level           : GradeLevels]

(* The two base distributions, in hundredths.                              *)
theoretical_distribution == <<5, 5, 12, 35, 15, 15, 8, 5, 6>>
practical_distribution   == <<5, 3, 8, 25, 20, 25, 10, 4, 6>>

(* The multiplier of an event for a grade level, in tenths.                *)
grade_adjustments(grade_level, event) ==
    CASE grade_level = "freshman"  /\ event = 2 -> 12
      [] grade_level = "freshman"  /\ event = 3 -> 13
      [] grade_level = "freshman"  /\ event = 5 -> 12
      [] grade_level = "sophomore" /\ event \in {2, 3, 5} -> 11
      [] grade_level = "senior"    /\ event \in {6, 8} -> 11
      [] grade_level = "masters"   /\ event \in {6, 8} -> 12
      [] grade_level = "masters"   /\ event = 7 -> 11
      [] grade_level = "postgrad"  /\ event = 4 -> 9
      [] grade_level = "postgrad"  /\ event \in {6, 8} -> 13
      [] OTHER -> 10

(* base_distribution[event] after the interpolation by the focus ratio and *)
(* the grade adjustment, as an integer: the weight times                   *)
(* 1000 * (practical_count + theoretical_count).  With no level counted    *)
(* the focus ratio is 0.5.                                                 *)
base_distribution(req, event) ==
    LET practical_count   ==
            Cardinality(req.selected_bloom_levels \cap practical_levels)
        theoretical_count ==
            Cardinality(req.selected_bloom_levels \cap theoretical_levels)
        p == IF practical_count + theoretical_count = 0 THEN 1
             ELSE practical_count
        t == IF practical_count + theoretical_count = 0 THEN 1
             ELSE theoretical_count
    IN  (theoretical_distribution[event] * t + practical_distribution[event] * p)
            * grade_adjustments(req.grade_level, event)

RECURSIVE SumTo(_, _)
(* f[1] + ... + f[n].                                                      *)
SumTo(f, n) == IF n = 0 THEN 0 ELSE f[n] + SumTo(f, n - 1)

total_weight(req) ==
    SumTo([event \in 1..9 |-> base_distribution(req, event)], 9)

(* round(num / den): the nearest integer.  When num / den lies exactly     *)
(* between two integers the float product the code rounds can fall on      *)
(* either side, so both neighbours are results.                            *)
round(num, den) ==
    LET q == num \div den
        r == num % den
    IN  IF 2 * r < den THEN {q}
        ELSE IF 2 * r > den THEN {q + 1}
        ELSE {q, q + 1}

Max(a, b) == IF a >= b THEN a ELSE b

RECURSIVE FirstEvents(_, _)
(* The loop over events 1-8: max(1, round(weight * duration)) each.        *)
FirstEvents(req, n) ==
    IF n = 0 THEN {<<>>}
    ELSE {Append(td, Max(1, minutes)) :
            td \in FirstEvents(req, n - 1),
            minutes \in round(base_distribution(req, n) * req.duration_minutes,
                              total_weight(req))}

(* Event 9 gets max(1, duration - total_allocated).                        *)
_calculate_gagne_time_distribution(req) ==
    {Append(td, Max(1, req.duration_minutes - SumTo(td, 8))) :
        td \in FirstEvents(req, 8)}

InitTime ==
    /\ design_slides = None
    /\ design_report = None
    /\ generation_attempt = None
    /\ gateway_attempt = None
    /\ call_log = None
    /\ generation_result = None
    /\ gagne_events = None
    /\ heap = None
    /\ slide_dicts = None
    /\ received = None
    /\ enhanced_slides = None
    /\ enhanced_by = None
    /\ event_slide_tasks = None
    /\ content_wait = None
    /\ content_by_event = None
    /\ objectives = None
    /\ event_tasks = None
    /\ completed = None
    /\ slides_response = None
    /\ slide_list = None
    /\ validator_runs = None
    /\ gagne_event = None
    /\ slide_count = None
    /\ slide_run = None
    /\ svc = "idle"
    /\ pc = "start"
    /\ elapsed = 0
    /\ stage = [s \in Stages |-> "pending"]
    /\ plan_failures = {}
    /\ plan_data = None
    /\ content_data = None
    /\ slides = None
    /\ udl_data = None
    /\ design_data = None
    /\ accessibility_data = None
    /\ response = NoResponse
    /\ request \in Requests
    /\ time_distribution = None
    /\ agent_input = None
    /\ branch = None
    /\ agent_result = None
    /\ call = None
    /\ plan_run = None

(* The Plan agent computes the time distribution of the request.           *)
CalculateTime ==
    /\ request # None /\ time_distribution = None
    /\ time_distribution' \in _calculate_gagne_time_distribution(request)
    /\ UNCHANGED <<request, pipelineVars, contentVars, gatewayVars, slideVars, mergeVars, objectiveVars, fanoutVars, enhanceVars, eventVars, callVars, designVars>>

NextTime == CalculateTime

SpecTime == InitTime /\ [][NextTime]_vars

-----------------------------------------------------------------------------
(* The Content agent on its own: ContentAgent.process with the events and  *)
(* the objectives in either form, one branch of asyncio.gather per event.  *)

(* What a branch can end with, per form of its inputs: how the generation  *)
(* loop ended for this grouping (it is not reached for an event given as a *)
(* dictionary), and what _generate_slides_for_event returns or raises.     *)
BranchOutcomes ==
    [f \in Forms \X Forms |->
        {[generation |-> IF f[1] = "dict" THEN "not_reached"
                         ELSE generation_loop(run, 0),
          result     |-> _generate_slides_for_event(f[1], f[2], run)] :
            run \in GenerationRuns}]

Pending == [state |-> "pending"]

InitContent ==
    /\ design_slides = None
    /\ design_report = None
    /\ generation_attempt = None
    /\ gateway_attempt = None
    /\ call_log = None
    /\ generation_result = None
    /\ gagne_events = None
    /\ heap = None
    /\ slide_dicts = None
    /\ received = None
    /\ enhanced_slides = None
    /\ enhanced_by = None
    /\ event_slide_tasks = None
    /\ content_wait = None
    /\ content_by_event = None
    /\ objectives = None
    /\ event_tasks = None
    /\ completed = None
    /\ slides_response = None
    /\ slide_list = None
    /\ validator_runs = None
    /\ gagne_event = None
    /\ slide_count = None
    /\ slide_run = None
    /\ svc = "idle"
    /\ pc = "start"
    /\ elapsed = 0
    /\ stage = [s \in Stages |-> "pending"]
    /\ plan_failures = {}
    /\ plan_data = None
    /\ content_data = None
    /\ slides = None
    /\ udl_data = None
    /\ design_data = None
    /\ accessibility_data = None
    /\ response = NoResponse
    /\ request = None
    /\ time_distribution = None
    /\ agent_input \in [gagne_events : Forms, objectives : Forms]
    /\ branch = [e \in Events |-> Pending]
    /\ agent_result = None
    /\ call = None
    /\ plan_run = None

(* The branch of one event runs _generate_slides_for_event to its end.     *)
BranchRuns(e) ==
    /\ agent_input # None /\ agent_result = None
    /\ branch[e] = Pending
    /\ \E outcome \in BranchOutcomes[<<agent_input.gagne_events,
                                        agent_input.objectives>>] :
        branch' = [branch EXCEPT ![e] = [state      |-> "done",
                                         generation |-> outcome.generation,
                                         result     |-> outcome.result]]
    /\ UNCHANGED <<agent_input, agent_result, pipelineVars, timeVars,
                   gatewayVars, slideVars, mergeVars, objectiveVars, fanoutVars, enhanceVars, eventVars, callVars, designVars>>

(* asyncio.gather returns once every branch has returned, or re-raises as  *)
(* soon as one branch has raised; process answers with the response.       *)
ContentProcessReturns ==
    /\ agent_input # None /\ agent_result = None
    /\ \/ \A e \in Events : branch[e] # Pending
       \/ \E e \in Events : branch[e] # Pending /\ branch[e].result.raised
    /\ agent_result' =
          ContentAgentProcess(
              [e \in Events |-> IF branch[e] # Pending THEN branch[e].result
                                ELSE [raised |-> FALSE, source |-> "none"]])
    /\ UNCHANGED <<agent_input, branch, pipelineVars, timeVars, gatewayVars, slideVars, mergeVars, objectiveVars, fanoutVars, enhanceVars, eventVars, callVars, designVars>>

NextContent ==
    \/ \E e \in Events : BranchRuns(e)
    \/ ContentProcessReturns

SpecContent == InitContent /\ [][NextContent]_vars

-----------------------------------------------------------------------------
(* Properties of the pipeline (specification Spec).                        *)

Validators == {"udl", "design", "accessibility"}

(* The stages that ended in their fallback.                                *)
FellBack == {s \in Stages \ {"plan"} : stage[s] \in {"failed", "timeout"}}

Succeeded == response.returned /\ response.success

DegradedFlagReported ==
    Succeeded
        => /\ "degraded" \in DOMAIN response.data
           /\ "fallbacks" \in DOMAIN response.data
           /\ response.data.degraded = (FellBack # {})
           /\ response.data.fallbacks = FellBack

(* A run that returned its result after a stage fell back.                 *)
DegradedRunSucceeded ==
    Succeeded /\ FellBack # {}

(* C4: whenever process returns success, the result holds the plan         *)
(* (objectives, lesson plan, events), the content and the three compliance *)
(* reports.                                                                *)
SuccessResultComplete ==
    Succeeded
        => /\ {"lesson_plan", "content", "udl_compliance", "design_compliance",
               "accessibility_compliance"} \subseteq DOMAIN response.data
           /\ DOMAIN response.data.lesson_plan =
                  {"objectives", "lesson_plan", "gagne_events"}
           /\ \A k \in DOMAIN response.data.lesson_plan :
                  response.data.lesson_plan[k] \in {"generated", "fallback"}
           /\ response.data.content.gagne_slides_response.kind = "content"
           /\ response.data.udl_compliance = udl_data.udl_compliance_report
           /\ response.data.design_compliance =
                  design_data.design_compliance_report
           /\ response.data.accessibility_compliance =
                  accessibility_data.accessibility_compliance_report

(* A successful result assembled from fallback content and fallback        *)
(* reports only.                                                           *)
SuccessWithAllFallbacks ==
    /\ Succeeded
    /\ stage.content = "failed"
    /\ stage.udl = "timeout"
    /\ stage.accessibility = "timeout"

(* C6: the Content stage starts only after the Plan stage has succeeded,   *)
(* and no validator stage starts before the Content stage has ended with   *)
(* generated or fallback content.                                          *)
StagesInOrder ==
    /\ stage.content # "pending" => (stage.plan = "success" /\ plan_data # None)
    /\ \A v \in Validators :
          stage[v] # "pending"
              => /\ stage.content \in {"success", "failed", "timeout"}
                 /\ content_data # None
                 /\ content_data.kind = "content"

(* The last validator runs on the content a Content deadline left.         *)
ValidatorsAfterContentDeadline ==
    stage.accessibility = "running" /\ stage.content = "timeout"

(* C7: a stage that exceeds its deadline is handled like that stage's      *)
(* failure: Content and the validators get their fallback artifact and the *)
(* next stage is started (after the last one the result is returned); Plan *)
(* aborts the run with an error.                                           *)
DeadlineLikeFailure ==
    /\ stage.plan \in {"failed", "timeout"}
          => /\ response.returned /\ ~response.success
             /\ \A s \in Stages \ {"plan"} : stage[s] = "pending"
    /\ stage.content \in {"failed", "timeout"}
          => /\ content_data = _create_fallback_content
             /\ stage.udl # "pending"
    /\ stage.udl \in {"failed", "timeout"}
          => /\ udl_data = _create_fallback_udl_compliance
             /\ stage.design # "pending"
    /\ stage.design \in {"failed", "timeout"}
          => /\ design_data = _create_fallback_design_compliance
             /\ stage.accessibility # "pending"
    /\ stage.accessibility \in {"failed", "timeout"}
          => /\ accessibility_data = _create_fallback_accessibility_compliance
             /\ Succeeded

(* The Content stage and a validator exceeded their deadlines and the run  *)
(* returned its result.                                                    *)
TwoDeadlinesRunSucceeds ==
    /\ stage.content = "timeout"
    /\ stage.udl = "timeout"
    /\ svc = "returned"

(* C9: a validator stage that ends in fallback contributes a report whose  *)
(* principle scores and overall score are all exactly 0.5, with the fixed  *)
(* fallback recommendations.                                               *)
FallbackReportsAllHalf ==
    /\ stage.udl \in {"failed", "timeout"}
          => /\ udl_data.udl_compliance_report.representation_score = Half
             /\ udl_data.udl_compliance_report.action_expression_score = Half
             /\ udl_data.udl_compliance_report.engagement_score = Half
             /\ udl_data.udl_compliance_report.overall_compliance = Half
             /\ udl_data.recommendations =
                    _create_fallback_udl_compliance.recommendations
    /\ stage.design \in {"failed", "timeout"}
          => /\ design_data.design_compliance_report.contrast_score = Half
             /\ design_data.design_compliance_report.repetition_score = Half
             /\ design_data.design_compliance_report.alignment_score = Half
             /\ design_data.design_compliance_report.proximity_score = Half
             /\ design_data.design_compliance_report.overall_score = Half
             /\ design_data.recommendations =
                    _create_fallback_design_compliance.recommendations
    /\ stage.accessibility \in {"failed", "timeout"}
          => /\ \A k \in {"perceivable_score", "operable_score",
                           "understandable_score", "robust_score",
                           "overall_score"} :
                    accessibility_data.accessibility_compliance_report[k] = Half
             /\ accessibility_data.recommendations =
                    _create_fallback_accessibility_compliance.recommendations

(* The UDL stage fell back and its report is in the returned result.       *)
UDLFallbackReturned ==
    stage.udl = "timeout" /\ svc = "returned"

(* C10: in every validation report of the output each sub-score and the    *)
(* overall score lie in [0, 1] and the overall score is the mean of the    *)
(* sub-scores.                                                             *)
ReportScoresInRangeWithMean ==
    Succeeded
        => LET udl    == response.data.udl_compliance
               design == response.data.design_compliance
               access == response.data.accessibility_compliance
           IN  /\ InUnitRange(udl.representation_score)
               /\ InUnitRange(udl.action_expression_score)
               /\ InUnitRange(udl.engagement_score)
               /\ InUnitRange(udl.overall_compliance)
               /\ 3 * udl.overall_compliance =
                      udl.representation_score + udl.action_expression_score
                          + udl.engagement_score
               /\ InUnitRange(design.contrast_score)
               /\ InUnitRange(design.repetition_score)
               /\ InUnitRange(design.alignment_score)
               /\ InUnitRange(design.proximity_score)
               /\ InUnitRange(design.overall_score)
               /\ 4 * design.overall_score =
                      design.contrast_score + design.repetition_score
                          + design.alignment_score + design.proximity_score
               /\ InUnitRange(access.perceivable_score)
               /\ InUnitRange(access.operable_score)
               /\ InUnitRange(access.understandable_score)
               /\ InUnitRange(access.robust_score)
               /\ InUnitRange(access.overall_score)
               /\ 4 * access.overall_score =
                      access.perceivable_score + access.operable_score
                          + access.understandable_score + access.robust_score

(* A result whose UDL report, computed by the agent, holds a score above 1. *)
ScoreAboveOneReturned ==
    /\ Succeeded
    /\ stage.udl = "success"
    /\ response.data.udl_compliance.representation_score > One

-----------------------------------------------------------------------------
(* Property of the time allocation (specification SpecTime).               *)

(* C5: the minutes of the nine events sum exactly to the duration of the   *)
(* request; the ninth event holds the duration minus the sum of the first  *)
(* eight.                                                                  *)
TimeSumsToDuration ==
    time_distribution # None
        => /\ SumTo(time_distribution, 9) = request.duration_minutes
           /\ time_distribution[9] =
                  request.duration_minutes - SumTo(time_distribution, 8)

(* The first eight events alone are given more than the whole duration.    *)
TimeOverAllocated ==
    /\ time_distribution # None
    /\ SumTo(time_distribution, 8) > request.duration_minutes

-----------------------------------------------------------------------------
(* Property of the Content agent (specification SpecContent).              *)

(* C8: a grouping whose generation fails is the only one replaced by       *)
(* fallback units: the Content stage as a whole does not fail, and every   *)
(* grouping whose generation succeeded keeps its generated units in the    *)
(* output.                                                                 *)
GroupingFallbackLocal ==
    agent_result # None
        => /\ agent_result.success
           /\ \A e \in Events :
                  (branch[e] # Pending /\ branch[e].generation = "generated")
                      => agent_result.data.events[e] = "generated"

(* With events and objectives given as objects, one grouping fell back and *)
(* another kept its generated units.                                       *)
PartialDegradation ==
    /\ agent_result # None
    /\ agent_result.success
    /\ \E e \in Events : agent_result.data.events[e] = "fallback"
    /\ \E e \in Events : agent_result.data.events[e] = "generated"

-----------------------------------------------------------------------------
(* The gateway step by step: BaseAgent._call_openai as PlanAgent.process   *)
(* uses it, one call for each of its three generations in turn.            *)

PlanGenerations == <<"objectives", "lesson_plan", "gagne_events">>

(* What a call leaves in its trace: a request sent, the exception or the   *)
(* reply it met, and a wait of asyncio.sleep (in seconds).                 *)
Request  == [kind |-> "request", seconds |-> 0]
Error    == [kind |-> "error",   seconds |-> 0]
Reply    == [kind |-> "reply",   seconds |-> 0]
Sleep(n) == [kind |-> "sleep",   seconds |-> n]

NewCall == [attempt |-> 0, log |-> <<>>]

(* A call that gives up one attempt early.                                 *)
gives_up_early(attempt) == attempt = max_retries - 2

(* `if attempt == max_retries - 1: raise`.                                 *)
is_last_attempt(attempt) == attempt = max_retries - 1

(* A wait of one second whatever the attempt.                              *)
constant_backoff(attempt) == 1

(* `await asyncio.sleep(2 ** attempt)`.                                    *)
backoff(attempt) == 2 ^ attempt

(* The outcome of each attempt of a finished call, as _call_openai above   *)
(* takes them (attempts the call did not make are of no account).          *)
AttemptsOf(log) ==
    LET met == SelectSeq(log, LAMBDA x : x.kind \in {"error", "reply"})
    IN  [i \in 1..max_retries |->
            IF i <= Len(met) THEN met[i].kind ELSE "reply"]

(* The generation of the Plan agent that made the call turns its outcome   *)
(* into its artifact.                                                      *)
generate(generation, attempts, reply) ==
    CASE generation = "objectives"   -> _generate_objectives(attempts, reply)
      [] generation = "lesson_plan"  -> _generate_lesson_plan(attempts, reply)
      [] generation = "gagne_events" -> _generate_gagne_events(attempts, reply)

InitGateway ==
    /\ design_slides = None
    /\ design_report = None
    /\ generation_attempt = None
    /\ gateway_attempt = None
    /\ call_log = None
    /\ generation_result = None
    /\ gagne_events = None
    /\ heap = None
    /\ slide_dicts = None
    /\ received = None
    /\ enhanced_slides = None
    /\ enhanced_by = None
    /\ event_slide_tasks = None
    /\ content_wait = None
    /\ content_by_event = None
    /\ objectives = None
    /\ event_tasks = None
    /\ completed = None
    /\ slides_response = None
    /\ slide_list = None
    /\ validator_runs = None
    /\ gagne_event = None
    /\ slide_count = None
    /\ slide_run = None
    /\ svc = "idle"
    /\ pc = "start"
    /\ elapsed = 0
    /\ stage = [s \in Stages |-> "pending"]
    /\ plan_failures = {}
    /\ plan_data = None
    /\ content_data = None
    /\ slides = None
    /\ udl_data = None
    /\ design_data = None
    /\ accessibility_data = None
    /\ response = NoResponse
    /\ request = None
    /\ time_distribution = None
    /\ agent_input = None
    /\ branch = None
    /\ agent_result = None
    /\ call = NewCall
    /\ plan_run = [position |-> 1, done |-> <<>>]

(* The generation whose call has ended is recorded and the next one starts *)
(* a new call.                                                             *)
Finish(outcome, log, reply) ==
    /\ plan_run' =
          [position |-> plan_run.position + 1,
           done |-> Append(plan_run.done,
                      [generation |-> PlanGenerations[plan_run.position],
                       outcome    |-> outcome,
                       log        |-> log,
                       reply      |-> reply,
                       artifact   |-> generate(PlanGenerations[plan_run.position],
                                               AttemptsOf(log), reply)])]
    /\ call' = NewCall

(* An attempt meets an exception (or an empty reply) and is not the last:  *)
(* the call waits and goes round the loop.                                 *)
AttemptFails ==
    /\ call # None /\ plan_run.position <= Len(PlanGenerations)
    /\ call.attempt < max_retries
    /\ ~is_last_attempt(call.attempt)
    /\ call' = [attempt |-> call.attempt + 1,
                log |-> call.log \o <<Request, Error,
                                       Sleep(backoff(call.attempt))>>]
    /\ UNCHANGED <<plan_run, pipelineVars, timeVars, contentVars, slideVars, mergeVars, objectiveVars, fanoutVars, enhanceVars, eventVars, callVars, designVars>>

(* The last attempt meets an exception: it is re-raised, and the           *)
(* generation that made the call catches it.                               *)
LastAttemptFails ==
    /\ call # None /\ plan_run.position <= Len(PlanGenerations)
    /\ call.attempt < max_retries
    /\ is_last_attempt(call.attempt)
    /\ Finish("raised", call.log \o <<Request, Error>>, "none")
    /\ UNCHANGED <<pipelineVars, timeVars, contentVars, slideVars, mergeVars, objectiveVars, fanoutVars, enhanceVars, eventVars, callVars, designVars>>

(* An attempt gets a reply: the call returns it, and the generation that   *)
(* made the call parses and validates it.                                  *)
AttemptSucceeds ==
    /\ call # None /\ plan_run.position <= Len(PlanGenerations)
    /\ call.attempt < max_retries
    /\ \E reply \in Replies :
          Finish("returned", call.log \o <<Request, Reply>>, reply)
    /\ UNCHANGED <<pipelineVars, timeVars, contentVars, slideVars, mergeVars, objectiveVars, fanoutVars, enhanceVars, eventVars, callVars, designVars>>

NextGateway ==
    \/ AttemptFails
    \/ LastAttemptFails
    \/ AttemptSucceeds

SpecGateway == InitGateway /\ [][NextGateway]_vars

(* The trace entries of one kind.                                          *)
Entries(log, kind) == SelectSeq(log, LAMBDA x : x.kind = kind)

(* Every call of the run: those that have ended and the one in progress.   *)
CallLogs ==
    {plan_run.done[i].log : i \in 1..Len(plan_run.done)}
        \cup (IF call = None THEN {} ELSE {call.log})

(* C11: a call whose first two attempts fail and whose third attempt gets  *)
(* a reply returns that reply (no call raises before its third attempt has *)
(* failed), and the generation that made the call keeps the artifact made  *)
(* from a valid reply.                                                     *)
ThirdAttemptReturns ==
    \A i \in 1..Len(plan_run.done) :
        LET c == plan_run.done[i]
        IN  /\ (c.log[Len(c.log)].kind = "reply") <=> (c.outcome = "returned")
            /\ c.outcome = "raised" => Len(Entries(c.log, "error")) = 3
            /\ (c.outcome = "returned" /\ c.reply = "valid")
                  => c.artifact = "generated"

(* A call returned on its third attempt and its generation kept the        *)
(* generated artifact.                                                     *)
ThirdAttemptReturned ==
    \E i \in 1..Len(plan_run.done) :
        /\ Len(Entries(plan_run.done[i].log, "error")) = 2
        /\ plan_run.done[i].outcome = "returned"
        /\ plan_run.done[i].artifact = "generated"

(* C12: one call sends at most three requests, waits 2^k seconds after the *)
(* k-th failed attempt (k = 0, 1) before the next request, and after the   *)
(* third failure raises with no further request or wait.                   *)
BoundedAttemptsWithBackoff ==
    /\ \A log \in CallLogs :
          /\ Len(Entries(log, "request")) <= 3
          /\ \A j \in 1..Len(log) :
                /\ log[j].kind = "sleep"
                      => /\ j > 1 /\ log[j - 1].kind = "error"
                         /\ log[j].seconds =
                                2 ^ (Len(Entries(SubSeq(log, 1, j), "error")) - 1)
                         /\ Len(Entries(SubSeq(log, 1, j), "error")) <= 2
                /\ (log[j].kind = "error"
                        /\ Len(Entries(SubSeq(log, 1, j), "error")) <= 2
                        /\ j < Len(log))
                      => log[j + 1].kind = "sleep"
                /\ (log[j].kind = "request" /\ j > 1)
                      => log[j - 1].kind = "sleep"
    /\ \A i \in 1..Len(plan_run.done) :
          plan_run.done[i].outcome = "raised"
              => /\ Len(Entries(plan_run.done[i].log, "request")) = 3
                 /\ plan_run.done[i].log[Len(plan_run.done[i].log)].kind = "error"
                 /\ Len(Entries(plan_run.done[i].log, "sleep")) = 2

(* A call raised after three requests and waits of one and two seconds.    *)
CallRaisedAfterBackoff ==
    \E i \in 1..Len(plan_run.done) :
        /\ plan_run.done[i].outcome = "raised"
        /\ Entries(plan_run.done[i].log, "sleep") = <<Sleep(1), Sleep(2)>>

-----------------------------------------------------------------------------
(* ContentAgent._generate_slides_for_event for one event given as a model  *)
(* object: the slide count, then the generation loop, pass by pass.        *)
(* Slide durations are floats in the code (3.0); every value used here is  *)
(* a whole number of minutes.                                              *)

MaxEventMinutes  == 30    \* GagneEvent.duration_minutes is an unbounded int
MaxActivities    == 4     \* len(event.activities) is unbounded
MaxReplyMinutes  == 4     \* duration_minutes of a generated slide is unbounded

(* The events _generate_slides_for_event can be handed, as far as the      *)
(* computation reads them: `activities` is the length of the list and      *)
(* grade_level is lesson_info["grade_level"].                              *)
GagneEvents ==
    [event_number     : Events,
     duration_minutes : 1..MaxEventMinutes,
     activities       : 0..MaxActivities,
     grade_level      : GradeLevels]

(* event_templates[n]["base_slides"].                                      *)
base_slides == <<2, 1, 2, 4, 3, 3, 2, 2, 2>>

(* grade_factors of _calculate_slide_count, in tenths.                     *)
grade_factors(grade_level) ==
    CASE grade_level = "freshman"  -> 12
      [] grade_level = "sophomore" -> 11
      [] grade_level = "junior"    -> 10
      [] grade_level = "senior"    -> 9
      [] grade_level = "masters"   -> 8
      [] grade_level = "postgrad"  -> 7

Min(a, b) == IF a <= b THEN a ELSE b

(* duration_factor = max(1, duration_minutes // 15).                       *)
duration_factor(duration_minutes) == Max(1, duration_minutes \div 15)

(* activity_factor = min(2, len(activities) // 2).                         *)
activity_factor(activities) == Min(2, activities \div 2)

(* calculated_count = int(base * duration * activity * grade): int()       *)
(* truncates.  The float product differs from the exact one only above 60, *)
(* far above the cap of 8, so the exact quotient gives the same count.     *)
rounded_count(e) ==
    (base_slides[e.event_number] * duration_factor(e.duration_minutes)
       * activity_factor(e.activities) * grade_factors(e.grade_level) + 5)
    \div 10

calculated_count(e) ==
    (base_slides[e.event_number] * duration_factor(e.duration_minutes)
       * activity_factor(e.activities) * grade_factors(e.grade_level))
    \div 10

min_slides(e) == Max(1, base_slides[e.event_number] \div 2)
max_slides(e) == Min(8, base_slides[e.event_number] * 3)

_calculate_slide_count(e) ==
    Max(min_slides(e), Min(calculated_count(e), max_slides(e)))

(* What the gateway hands one pass of the generation loop:                 *)
(*   valid           a JSON array of slide_count complete slides;          *)
(*   missing_fields  a JSON array of slide_count items that lack fields    *)
(*                   of SlideContent (duration_minutes among them);        *)
(*   wrong_count     a JSON array of another length;                       *)
(*   wrong_type      JSON whose top level is not an array;                 *)
(*   not_json        text that json.loads rejects;                         *)
(*   empty           nothing: _call_openai raised ValueError on its last   *)
(*                   attempt;                                              *)
(*   error           _call_openai raised another exception on its last     *)
(*                   attempt.                                              *)
ReplyKinds ==
    {"valid", "missing_fields", "wrong_count", "wrong_type", "not_json",
     "empty", "error"}

(* The pass result of generation_loop that a reply amounts to.             *)
AttemptResult(reply) ==
    CASE reply \in {"valid", "missing_fields"}         -> "slides"
      [] reply = "wrong_count"                         -> "wrong_count"
      [] reply \in {"wrong_type", "not_json", "empty"} -> "retryable"
      [] reply = "error"                               -> "fatal"

ReplyMinutes == 1..MaxReplyMinutes

(* _create_basic_slide: duration_minutes=3.0.                              *)
basic_slide_minutes == 3

(* _create_slide_object: float(slide_data.get("duration_minutes", 3.0)).   *)
_create_slide_object(reply, minutes) ==
    IF reply = "missing_fields" THEN 3 ELSE minutes

(* The slides _create_ai_generated_slides returns: how many, and the       *)
(* duration of each (one value for the whole reply).                       *)
Generated(reply, attempt, total, minutes) ==
    [source |-> "generated", accepted |-> reply, attempt |-> attempt,
     total |-> total, duration_minutes |-> minutes]

(* _create_fallback_slides: slide_count basic slides.                      *)
FallbackSlides(reply, attempt) ==
    [source |-> "fallback", accepted |-> "none", attempt |-> attempt,
     total |-> slide_count, duration_minutes |-> basic_slide_minutes]

Running(attempt) ==
    [source |-> "pending", accepted |-> "none", attempt |-> attempt,
     total |-> 0, duration_minutes |-> 0]

InitSlides ==
    /\ design_slides = None
    /\ design_report = None
    /\ generation_attempt = None
    /\ gateway_attempt = None
    /\ call_log = None
    /\ generation_result = None
    /\ gagne_events = None
    /\ heap = None
    /\ slide_dicts = None
    /\ received = None
    /\ enhanced_slides = None
    /\ enhanced_by = None
    /\ event_slide_tasks = None
    /\ content_wait = None
    /\ content_by_event = None
    /\ objectives = None
    /\ event_tasks = None
    /\ completed = None
    /\ slides_response = None
    /\ slide_list = None
    /\ validator_runs = None
    /\ svc = None /\ pc = None /\ elapsed = None /\ stage = None
    /\ plan_failures = None /\ plan_data = None /\ content_data = None
    /\ slides = None /\ udl_data = None /\ design_data = None
    /\ accessibility_data = None /\ response = None
    /\ request = None /\ time_distribution = None
    /\ agent_input = None /\ branch = None /\ agent_result = None
    /\ call = None /\ plan_run = None
    /\ gagne_event \in GagneEvents
    /\ slide_count = None
    /\ slide_run = None

otherVars == <<pipelineVars, timeVars, contentVars, gatewayVars>>

(* _generate_slides_for_event up to the call of                            *)
(* _create_ai_generated_slides.                                            *)
CalculateSlideCount ==
    /\ slide_run = None
    /\ slide_count' = _calculate_slide_count(gagne_event)
    /\ slide_run' = Running(0)
    /\ UNCHANGED <<gagne_event, otherVars, mergeVars, objectiveVars, fanoutVars, enhanceVars, eventVars, callVars, designVars>>

InLoop == slide_run # None /\ slide_run.source = "pending"

(* A pass whose reply has slide_count items: every item becomes a slide,   *)
(* missing fields filled with defaults.                                    *)
PassAccepted ==
    /\ InLoop
    /\ \E reply \in ReplyKinds, minutes \in ReplyMinutes :
          /\ AttemptResult(reply) = "slides"
          /\ slide_run' = Generated(reply, slide_run.attempt, slide_count,
                                    _create_slide_object(reply, minutes))
    /\ UNCHANGED <<gagne_event, slide_count, otherVars, mergeVars, objectiveVars, fanoutVars, enhanceVars, eventVars, callVars, designVars>>

(* A pass whose reply has another number of items: `continue` on the first *)
(* two passes, converted to slides on the third.                           *)
PassWrongCount ==
    /\ InLoop
    /\ IF slide_run.attempt < 2
       THEN slide_run' = Running(slide_run.attempt + 1)
       ELSE \E total \in {slide_count - 1, slide_count + 1},
               minutes \in ReplyMinutes :
               slide_run' = Generated("wrong_count", slide_run.attempt,
                                      total, minutes)
    /\ UNCHANGED <<gagne_event, slide_count, otherVars, mergeVars, objectiveVars, fanoutVars, enhanceVars, eventVars, callVars, designVars>>

(* A pass that raised JSONDecodeError, KeyError or ValueError: `continue`  *)
(* on the first two passes, fallback slides on the third.                  *)
PassRetryable ==
    /\ InLoop
    /\ \E reply \in ReplyKinds :
          /\ AttemptResult(reply) = "retryable"
          /\ slide_run' = IF slide_run.attempt < 2
                          THEN Running(slide_run.attempt + 1)
                          ELSE FallbackSlides(reply, slide_run.attempt)
    /\ UNCHANGED <<gagne_event, slide_count, otherVars, mergeVars, objectiveVars, fanoutVars, enhanceVars, eventVars, callVars, designVars>>

(* A pass that raised anything else: the outer handler returns fallback    *)
(* slides at once.                                                         *)
PassFatal ==
    /\ InLoop
    /\ slide_run' = FallbackSlides("error", slide_run.attempt)
    /\ UNCHANGED <<gagne_event, slide_count, otherVars, mergeVars, objectiveVars, fanoutVars, enhanceVars, eventVars, callVars, designVars>>

NextSlides ==
    \/ CalculateSlideCount
    \/ PassAccepted
    \/ PassWrongCount
    \/ PassRetryable
    \/ PassFatal

SpecSlides == InitSlides /\ [][NextSlides]_vars

Returned == slide_run # None /\ slide_run.source # "pending"

(* C13: a reply that parses as JSON but violates the expected schema       *)
(* (wrong top-level type, missing fields, wrong number of items) is never  *)
(* accepted as the successful artifact: the slides a generation returns as *)
(* generated come from a valid reply.                                      *)
SchemaViolationNeverAccepted ==
    (Returned /\ slide_run.source = "generated")
        => slide_run.accepted = "valid"

(* A reply of the wrong length was converted to slides on the third pass.  *)
WrongCountAccepted ==
    /\ Returned
    /\ slide_run.source = "generated"
    /\ slide_run.accepted = "wrong_count"
    /\ slide_run.attempt = 2
    /\ slide_run.total # slide_count

(* The counts the stated formula                                           *)
(*   clamp(round(base x duration x activity x audience), base/2, base x 3) *)
(* with duration = max(1, minutes/15) admits, doubled so that base/2 is a  *)
(* whole number: minutes/15 and base/2 read as exact or as whole-number    *)
(* quotients, a tie rounded either way.                                    *)
SpecifiedCounts(e) ==
    LET base == base_slides[e.event_number]
        k    == base * activity_factor(e.activities)
                     * grade_factors(e.grade_level)
        products == {k * Max(15, e.duration_minutes),
                     k * 15 * Max(1, e.duration_minutes \div 15)}
        rounded  == UNION {round(p, 150) : p \in products}
        lows     == {base, 2 * (base \div 2)}
    IN  {Max(lo, Min(2 * r, 6 * base)) : r \in rounded, lo \in lows}

(* C19 as stated: the target count of every grouping equals                *)
(* clamp(round(base x duration x activity x audience), base/2, base x 3),  *)
(* duration = max(1, minutes/15).                                          *)
TargetCountAsSpecified ==
    slide_run # None => 2 * slide_count \in SpecifiedCounts(gagne_event)

(* C19: the target count lies between max(1, base div 2) and               *)
(* min(8, base x 3); strictly inside that range it is the product          *)
(* base x max(1, minutes div 15) x min(2, activities div 2) x audience     *)
(* with its fraction cut off, not rounded.                                 *)
TargetCountTruncatedAndCapped ==
    slide_run # None =>
        LET base == base_slides[gagne_event.event_number]
            lo   == IF base \div 2 >= 1 THEN base \div 2 ELSE 1
            hi   == IF base * 3 <= 8 THEN base * 3 ELSE 8
            d    == IF gagne_event.duration_minutes \div 15 >= 1
                    THEN gagne_event.duration_minutes \div 15 ELSE 1
            a    == IF gagne_event.activities \div 2 <= 2
                    THEN gagne_event.activities \div 2 ELSE 2
            tenths == base * d * a * grade_factors(gagne_event.grade_level)
        IN  /\ lo <= slide_count /\ slide_count <= hi
            /\ slide_count > lo => 10 * slide_count <= tenths
            /\ slide_count < hi => tenths < 10 * (slide_count + 1)

(* A grouping whose product (9.6) exceeds the cap of 8, below base x 3.    *)
CountCappedAtEight ==
    /\ slide_run # None
    /\ gagne_event.event_number = 4
    /\ gagne_event.duration_minutes < 15
    /\ gagne_event.activities = 4
    /\ gagne_event.grade_level = "freshman"
    /\ slide_count = 8

(* C20: every content unit returned for a grouping, generated or fallback, *)
(* has a duration no greater than the minutes the plan allocates to the    *)
(* grouping.                                                               *)
UnitWithinAllocation ==
    (Returned /\ slide_run.total > 0)
        => slide_run.duration_minutes <= gagne_event.duration_minutes

(* Fallback slides of 3 minutes each for a grouping of less than 3         *)
(* minutes.                                                                *)
FallbackUnitOverAllocation ==
    /\ Returned
    /\ slide_run.source = "fallback"
    /\ slide_run.total > 0
    /\ slide_run.duration_minutes = basic_slide_minutes
    /\ gagne_event.duration_minutes < basic_slide_minutes

-----------------------------------------------------------------------------
(* The slides, one by one, from the fan-out of                             *)
(* ContentAgent.generate_slides_for_all_events through the three validator *)
(* phases of the Coordinator to the redistribution onto the events.        *)

MaxEvents == 3     \* len(gagne_events): nine in the pipeline
MaxSlides == 2     \* slides of one event

ValidatorOrder == <<"udl", "design", "accessibility">>

(* The slide fields followed here.  written_by[f] lists the validators     *)
(* whose enhancement assigned field f, oldest first: the field holds the   *)
(* value the last of them left.                                            *)
SlideFields ==
    {"main_content", "visual_elements", "udl_guidelines", "font_family",
     "accessibility_features"}

(* visual_elements of a slide as the Content stage leaves it: "none" (the  *)
(* empty list of every fallback slide) or "described" (elements with alt   *)
(* text and description).  generated_for names the event whose task made   *)
(* the slide; it is no field of SlideContent.                              *)
VisualKinds == {"none", "described"}

SlideOf(e, k, visual) ==
    [generated_for   |-> e,
     slide_number    |-> k,
     visual_elements |-> visual,
     written_by      |-> [f \in SlideFields |-> <<>>]]

(* The GagneEventSlides _generate_slides_for_event returns.                *)
GagneEventSlides(e, n, visual) ==
    [event_number |-> e,
     slides       |-> [k \in 1..n |-> SlideOf(e, k, visual)]]

RECURSIVE Flatten(_)
(* [slide for event in events for slide in event.slides].                  *)
Flatten(events) ==
    IF events = <<>> THEN <<>>
    ELSE Head(events).slides \o Flatten(Tail(events))

InitMerge ==
    /\ design_slides = None
    /\ design_report = None
    /\ generation_attempt = None
    /\ gateway_attempt = None
    /\ call_log = None
    /\ generation_result = None
    /\ gagne_events = None
    /\ heap = None
    /\ slide_dicts = None
    /\ received = None
    /\ enhanced_slides = None
    /\ enhanced_by = None
    /\ event_slide_tasks = None
    /\ content_wait = None
    /\ content_by_event = None
    /\ objectives = None
    /\ svc = None /\ pc = None /\ elapsed = None /\ stage = None
    /\ plan_failures = None /\ plan_data = None /\ content_data = None
    /\ slides = None /\ udl_data = None /\ design_data = None
    /\ accessibility_data = None /\ response = None
    /\ request = None /\ time_distribution = None
    /\ agent_input = None /\ branch = None /\ agent_result = None
    /\ call = None /\ plan_run = None
    /\ gagne_event = None /\ slide_count = None /\ slide_run = None
    /\ event_tasks = [e \in 1..MaxEvents |-> Pending]
    /\ completed = <<>>
    /\ slides_response = None
    /\ slide_list = None
    /\ validator_runs = <<>>

(* One task of asyncio.gather completes; the tasks complete in any order.  *)
TaskCompletes ==
    /\ \E e \in 1..MaxEvents, n \in 1..MaxSlides, visual \in VisualKinds :
          /\ event_tasks[e] = Pending
          /\ event_tasks' = [event_tasks EXCEPT
                                ![e] = GagneEventSlides(e, n, visual)]
          /\ completed' = Append(completed, e)
    /\ UNCHANGED <<slides_response, slide_list, validator_runs, otherVars,
                   slideVars, objectiveVars, fanoutVars, enhanceVars, eventVars, callVars, designVars>>

(* asyncio.gather returns once every task completed, the results in the    *)
(* order of the tasks it was given.                                        *)
GatherReturns ==
    /\ Len(completed) = MaxEvents
    /\ slides_response = None
    /\ slides_response' = [events     |-> [i \in 1..MaxEvents |-> event_tasks[i]],
                           integrated |-> FALSE]
    /\ UNCHANGED <<event_tasks, completed, slide_list, validator_runs,
                   otherVars, slideVars, objectiveVars, fanoutVars, enhanceVars, eventVars, callVars, designVars>>

(* The Coordinator rebuilds the events and flattens their slides.          *)
FlattenSlides ==
    /\ slides_response # None
    /\ slide_list = None
    /\ slide_list' = Flatten(slides_response.events)
    /\ UNCHANGED <<event_tasks, completed, slides_response, validator_runs,
                   otherVars, slideVars, objectiveVars, fanoutVars, enhanceVars, eventVars, callVars, designVars>>

(* How a validator phase ends: "enhanced" (the agent succeeded and a score *)
(* under 0.7 made it apply its enhancement: _enhance_representation,       *)
(* _enhance_repetition, _enhance_perceivable), "kept" (it succeeded with   *)
(* every score at 0.7 or more), "fallback" (failure or deadline).          *)
PhaseOutcomes == {"enhanced", "kept", "fallback"}

(* The fields the validator's enhancement assigns on a slide.              *)
WritesOf(v, outcome, slide) ==
    CASE outcome = "fallback" -> {}
      [] v = "udl" ->
            IF outcome = "enhanced"
            THEN {"visual_elements", "udl_guidelines"}
            ELSE {"udl_guidelines"}
      [] v = "design" ->
            IF outcome = "enhanced"
            THEN {"main_content", "font_family"}
                 \cup (IF slide.visual_elements # "none"
                       THEN {"visual_elements"} ELSE {})
            ELSE {}
      [] v = "accessibility" ->
            IF outcome = "enhanced"
            THEN {"accessibility_features", "main_content"}
            ELSE {}

(* A first-writer-wins assignment.                                         *)
WriteIfUnwritten(history, v) ==
    IF history = <<>> THEN <<v>> ELSE history

(* slide[field] = value.                                                   *)
Write(history, v) == Append(history, v)

(* The enhanced copy of one slide.  _enhance_representation adds a diagram *)
(* and a chart, both with alt text and description.                        *)
enhanced_slide(v, outcome, slide) ==
    [slide EXCEPT
        !.visual_elements =
            IF v = "udl" /\ outcome = "enhanced" THEN "described" ELSE @,
        !.written_by =
            [f \in SlideFields |->
                IF f \in WritesOf(v, outcome, slide)
                THEN Write(@[f], v) ELSE @[f]]]

(* What the validator's report reads off one slide, in tenths:             *)
(*   udl            whether udl_guidelines holds the guidelines the UDL    *)
(*                  enhancement appends;                                   *)
(*   design         _analyze_color_usage: 0.2 for an element with alt text *)
(*                  (the slide text mentions no colour);                   *)
(*   accessibility  _analyze_alt_text_compliance: 0.8 without visual       *)
(*                  elements, else 0.4 + 0.3 per element.                  *)
slide_evidence(v, slide) ==
    CASE v = "udl" ->
            IF slide.written_by["udl_guidelines"] = <<>> THEN 0 ELSE 10
      [] v = "design" ->
            IF slide.visual_elements = "described" THEN 2 ELSE 0
      [] v = "accessibility" ->
            IF slide.visual_elements = "none" THEN 8 ELSE 7

(* The report of a validator, as far as it depends on those readings.      *)
ValidatorReport(v, input) ==
    [i \in 1..Len(input) |-> slide_evidence(v, input[i])]

(* The slides a validator would be handed if it took the Content stage's   *)
(* list.                                                                   *)
ContentList == Flatten([i \in 1..MaxEvents |-> event_tasks[i]])

PhaseInputContent(v) == ContentList

(* _execute_udl_phase(slides, ...), _execute_design_phase(slides, ...),    *)
(* _execute_accessibility_phase(slides, ...).                              *)
PhaseInput(v) == slide_list

(* One validator phase of CoordinatorAgent.process, in the fixed order:    *)
(* on success `slides = data["enhanced_slides"]`, on fallback the slides   *)
(* stay as they are.                                                       *)
ValidatorPhase ==
    /\ slide_list # None
    /\ Len(validator_runs) < Len(ValidatorOrder)
    /\ \E outcome \in PhaseOutcomes :
          LET v        == ValidatorOrder[Len(validator_runs) + 1]
              input    == PhaseInput(v)
              enhanced == [i \in 1..Len(input) |->
                              enhanced_slide(v, outcome, input[i])]
          IN  /\ validator_runs' = Append(validator_runs,
                    [validator |-> v,
                     outcome   |-> outcome,
                     input     |-> input,
                     report    |-> IF outcome = "fallback" THEN <<>>
                                   ELSE ValidatorReport(v, input)])
              /\ slide_list' = IF outcome = "fallback" THEN slide_list
                               ELSE enhanced
    /\ UNCHANGED <<event_tasks, completed, slides_response, otherVars,
                   slideVars, objectiveVars, fanoutVars, enhanceVars, eventVars, callVars, designVars>>

(* A redistribution that hands every event one slide.                      *)
slide_index_per_event(events, i) == i - 1

(* slide_index when the redistribution loop reaches event i.               *)
slide_index(events, i) == Len(Flatten(SubSeq(events, 1, i - 1)))

(* The slides the loop hands event i: the next len(event.slides) of the    *)
(* flattened list, as far as it reaches.                                   *)
redistributed_slides(events, all, i) ==
    IF slide_index(events, i) < Len(all)
    THEN SubSeq(all, slide_index(events, i) + 1,
                Min(Len(all),
                    slide_index(events, i) + Len(events[i].slides)))
    ELSE events[i].slides

(* "Update the slides_response with enhanced slides".                      *)
Redistribute ==
    /\ Len(validator_runs) = Len(ValidatorOrder)
    /\ ~slides_response.integrated
    /\ slides_response' =
          [events |-> [i \in 1..MaxEvents |->
                          [slides_response.events[i] EXCEPT
                              !.slides = redistributed_slides(
                                  slides_response.events, slide_list, i)]],
           integrated |-> TRUE]
    /\ UNCHANGED <<event_tasks, completed, slide_list, validator_runs,
                   otherVars, slideVars, objectiveVars, fanoutVars, enhanceVars, eventVars, callVars, designVars>>

NextMerge ==
    \/ TaskCompletes
    \/ GatherReturns
    \/ FlattenSlides
    \/ ValidatorPhase
    \/ Redistribute

SpecMerge == InitMerge /\ [][NextMerge]_vars

(* C14: after the fan-out and join, and after the redistribution of the    *)
(* enhanced slides, every slide of the response sits under the event its   *)
(* task generated it for, whatever the order in which the tasks completed, *)
(* and no slide is lost.                                                   *)
UnitsKeepGrouping ==
    slides_response # None =>
        /\ \A i \in 1..MaxEvents :
              \A k \in 1..Len(slides_response.events[i].slides) :
                  slides_response.events[i].slides[k].generated_for
                      = slides_response.events[i].event_number
        /\ Len(Flatten(slides_response.events)) = Len(ContentList)

(* The tasks completed in the reverse of the order they were started in,   *)
(* events of different sizes were enhanced and redistributed.              *)
RedistributedAfterReverseCompletion ==
    /\ slides_response # None
    /\ slides_response.integrated
    /\ completed = <<3, 2, 1>>
    /\ Len(slides_response.events[1].slides) = 2
    /\ Len(slides_response.events[2].slides) = 1
    /\ validator_runs[1].outcome = "enhanced"
    /\ slides_response.events[3].slides[1].written_by["udl_guidelines"]
           = <<"udl">>

RECURSIVE ChainedList(_)
ChainedList(k) ==
    IF k = 1 THEN ContentList
    ELSE IF validator_runs[k - 1].outcome = "fallback"
         THEN ChainedList(k - 1)
         ELSE [i \in 1..Len(validator_runs[k - 1].input) |->
                  enhanced_slide(validator_runs[k - 1].validator,
                                 validator_runs[k - 1].outcome,
                                 validator_runs[k - 1].input[i])]

WritersInOrder(i, f) ==
    LET wrote(k) == f \in WritesOf(validator_runs[k].validator,
                                   validator_runs[k].outcome,
                                   validator_runs[k].input[i])
        pick(k)  == IF k <= Len(validator_runs) /\ wrote(k)
                    THEN <<ValidatorOrder[k]>> ELSE <<>>
    IN  pick(1) \o pick(2) \o pick(3)

(* C16: in the final list a field holds the value of its latest writer in  *)
(* the order UDL, design, accessibility: the writers of every field are    *)
(* exactly the validators that enhanced it, in that order, and a validator *)
(* that fell back is not among them.                                       *)
LastAppliedWins ==
    slide_list # None =>
        \A i \in 1..Len(slide_list) : \A f \in SlideFields :
            slide_list[i].written_by[f] = WritersInOrder(i, f)

(* UDL fell back, design and accessibility both rewrote main_content.      *)
AccessibilityWroteOverDesign ==
    /\ slide_list # None
    /\ Len(validator_runs) = 3
    /\ validator_runs[1].outcome = "fallback"
    /\ slide_list[1].written_by["main_content"] = <<"design", "accessibility">>
    /\ slide_list[1].written_by["udl_guidelines"] = <<>>

-----------------------------------------------------------------------------
(* Properties of the Content agent's fallback builders (specification      *)
(* SpecContent).                                                           *)

(* C17: fallback synthesis always succeeds: whatever form the events and   *)
(* the objectives are handed in, dictionaries included, a branch that      *)
(* turns to _create_fallback_slides or _create_fallback_event_slides gets  *)
(* a result from them and never an exception.                              *)
FallbackSynthesisNeverRaises ==
    \A e \in Events :
        branch[e] # Pending => ~branch[e].result.raised

(* The events were dictionaries and the fallback builders of a branch      *)
(* raised: no artifact for the grouping, the agent answers with an error.  *)
FallbackBuilderRaised ==
    /\ agent_input.gagne_events = "dict"
    /\ \E e \in Events :
          /\ branch[e] # Pending
          /\ branch[e].generation = "not_reached"
          /\ branch[e].result.raised
    /\ agent_result # None
    /\ ~agent_result.success

-----------------------------------------------------------------------------
(* Progression of the Coordinator (specification Spec).                    *)

(* The position of CoordinatorAgent.process, in program order.             *)
Rank(p) ==
    CASE p = "start"         -> 0
      [] p = "plan"          -> 1
      [] p = "content"       -> 2
      [] p = "udl"           -> 3
      [] p = "design"        -> 4
      [] p = "accessibility" -> 5
      [] p \in {"done", "cancelled"} -> 6

(* C18: the progression is strictly forward: the Coordinator only moves to *)
(* a later position, a stage is started only from "pending" (at most once  *)
(* per run), and a stage that succeeded, failed, timed out or was          *)
(* cancelled is never touched again.                                       *)
StrictlyForward ==
    [][/\ Rank(pc') >= Rank(pc)
       /\ \A s \in Stages :
             /\ (stage'[s] = "running" /\ stage[s] # "running")
                    => stage[s] = "pending"
             /\ stage[s] \notin {"pending", "running"}
                    => stage'[s] = stage[s]
             /\ (stage[s] = "running" /\ pc' = pc) => stage'[s] = "running"
      ]_vars

(* The run ended after the Content stage failed and the design stage timed *)
(* out: neither was invoked again.                                         *)
RunEndedPastFailedStages ==
    /\ pc = "done"
    /\ stage.content = "failed"
    /\ stage.design = "timeout"
    /\ stage.accessibility = "success"

-----------------------------------------------------------------------------
(* The Plan agent's deterministic objectives: the number of objectives     *)
(* _calculate_optimal_objectives_count asks for, their distribution over   *)
(* the selected Bloom levels, and the fallback list built from it.         *)

(* complexity_weights, in tenths.                                          *)
complexity_weights(level) ==
    CASE level = "remember"   -> 1
      [] level = "understand" -> 2
      [] level = "apply"      -> 4
      [] level = "analyze"    -> 6
      [] level = "evaluate"   -> 8
      [] level = "create"     -> 10

RECURSIVE SumWeights(_)
SumWeights(levels) ==
    IF levels = {} THEN 0
    ELSE LET l == CHOOSE x \in levels : TRUE
         IN  complexity_weights(l) + SumWeights(levels \ {l})

(* _calculate_cognitive_complexity compared with 0.7 and 0.3.  The weights *)
(* are added as floats in the order of the request: the four levels from   *)
(* apply to create average 0.7 exactly, and their float sum divided by 4   *)
(* is 0.7 in some orders and 0.7000000000000001 in others.  No other       *)
(* selection is within rounding distance of a threshold.                   *)
complexity_above(levels) ==
    IF levels = {"apply", "analyze", "evaluate", "create"}
    THEN BOOLEAN
    ELSE {SumWeights(levels) > 7 * Cardinality(levels)}
complexity_below(levels) == SumWeights(levels) < 3 * Cardinality(levels)

duration_base_objectives(duration) ==
    IF duration <= 30 THEN 2
    ELSE IF duration <= 60 THEN 3
    ELSE IF duration <= 90 THEN 4
    ELSE IF duration <= 120 THEN 5
    ELSE 6

level_adjustments(grade_level) ==
    CASE grade_level = "freshman" -> -1
      [] grade_level \in {"sophomore", "junior"} -> 0
      [] grade_level \in {"senior", "masters", "postgrad"} -> 1

max_objectives == 6

(* _calculate_optimal_objectives_count: the counts it can return.          *)
_calculate_optimal_objectives_count(req) ==
    LET levels == req.selected_bloom_levels
        base   == duration_base_objectives(req.duration_minutes)
        min_objectives == Max(2, Min(Cardinality(levels), 3))
    IN  {LET base_objectives ==
                 IF above THEN Max(2, base - 1)
                 ELSE IF complexity_below(levels) THEN Min(base + 1, 6)
                 ELSE base
             adjusted_objectives ==
                 base_objectives + level_adjustments(req.grade_level)
         IN  Max(min_objectives, Min(adjusted_objectives, max_objectives)) :
         above \in complexity_above(levels)}

(* The orders a list comprehension over selected_levels can keep its       *)
(* levels in: the order of the request.                                    *)
Orders(levels) ==
    {s \in [1..Cardinality(levels) -> levels] :
        \A i, j \in DOMAIN s : i # j => s[i] # s[j]}

(* A loop `for level in levels: if remaining_objectives > 0:               *)
(* distribution[level] = count; remaining_objectives -= count`, from its   *)
(* k-th level on.                                                          *)
RECURSIVE assign(_, _, _, _)
assign(levels, k, count, st) ==
    IF k > Len(levels) THEN st
    ELSE assign(levels, k + 1, count,
                IF st.remaining_objectives > 0
                THEN [distribution |->
                          [st.distribution EXCEPT ![levels[k]] = count],
                      remaining_objectives |->
                          st.remaining_objectives - count]
                ELSE st)

priority_order ==
    <<"understand", "apply", "analyze", "remember", "evaluate", "create">>

(* The last loop: one more objective for each selected level, in priority  *)
(* order, while objectives remain.                                         *)
RECURSIVE distribute_remaining(_, _, _)
distribute_remaining(selected_levels, k, st) ==
    IF k > Len(priority_order) THEN st
    ELSE distribute_remaining(selected_levels, k + 1,
            IF priority_order[k] \in selected_levels
               /\ st.remaining_objectives > 0
            THEN [distribution |->
                      [st.distribution EXCEPT
                          ![priority_order[k]] = @ + 1],
                  remaining_objectives |-> st.remaining_objectives - 1]
            ELSE st)

(* _distribute_objectives_pedagogically, with the application and the      *)
(* synthesis levels in the order of the request (the foundational levels   *)
(* get one objective each in either order).  The dictionary is kept as a   *)
(* count per level, 0 for a level without a key: no assignment of the      *)
(* function stores 0.                                                      *)
_distribute_objectives_pedagogically(selected_levels, total_objectives, application, synthesis) ==
    LET foundational ==
            SelectSeq(<<"remember", "understand">>,
                      LAMBDA l : l \in selected_levels)
        start == [distribution |-> [l \in BloomLevels |-> 0],
                  remaining_objectives |-> total_objectives]
        foundation_count ==
            Max(1, Min(Len(foundational), total_objectives \div 2))
        after_foundation ==
            IF Len(foundational) > 0 /\ start.remaining_objectives > 0
            THEN assign(foundational, 1,
                        IF foundation_count = 1 THEN 1
                        ELSE foundation_count \div Len(foundational),
                        start)
            ELSE start
        app_count ==
            IF Len(synthesis) > 0
            THEN Max(1, after_foundation.remaining_objectives \div 2)
            ELSE after_foundation.remaining_objectives
        after_application ==
            IF Len(application) > 0
               /\ after_foundation.remaining_objectives > 0
            THEN assign(application, 1,
                        IF Len(application) = 1 THEN 1
                        ELSE Max(1, app_count \div Len(application)),
                        after_foundation)
            ELSE after_foundation
        after_synthesis ==
            IF Len(synthesis) > 0
               /\ after_application.remaining_objectives > 0
            THEN assign(synthesis, 1, 1, after_application)
            ELSE after_application
    IN  distribute_remaining(selected_levels, 1, after_synthesis).distribution

(* _create_comprehensive_fallback_objectives: `count` objectives of every  *)
(* level of the distribution.  Kept here: the count the method asked for   *)
(* and the number of objectives of each level in the list it returns.      *)
_create_comprehensive_fallback_objectives(req) ==
    {[total_objectives |-> total,
      per_level |-> _distribute_objectives_pedagogically(
                        req.selected_bloom_levels, total, application, synthesis)] :
        total \in _calculate_optimal_objectives_count(req),
        application \in Orders(req.selected_bloom_levels \cap {"apply", "analyze"}),
        synthesis \in Orders(req.selected_bloom_levels \cap {"evaluate", "create"})}

InitObjectives ==
    /\ design_slides = None
    /\ design_report = None
    /\ generation_attempt = None
    /\ gateway_attempt = None
    /\ call_log = None
    /\ generation_result = None
    /\ gagne_events = None
    /\ heap = None
    /\ slide_dicts = None
    /\ received = None
    /\ enhanced_slides = None
    /\ enhanced_by = None
    /\ event_slide_tasks = None
    /\ content_wait = None
    /\ content_by_event = None
    /\ svc = None /\ pc = None /\ elapsed = None /\ stage = None
    /\ plan_failures = None /\ plan_data = None /\ content_data = None
    /\ slides = None /\ udl_data = None /\ design_data = None
    /\ accessibility_data = None /\ response = None
    /\ time_distribution = None
    /\ agent_input = None /\ branch = None /\ agent_result = None
    /\ call = None /\ plan_run = None
    /\ gagne_event = None /\ slide_count = None /\ slide_run = None
    /\ event_tasks = None /\ completed = None /\ slides_response = None
    /\ slide_list = None /\ validator_runs = None
    /\ request \in Requests
    /\ objectives = None

(* _generate_objectives when the reply is not used: the gateway call       *)
(* failed, the reply did not parse, or it had too few objectives or an     *)
(* objective without a required key.                                       *)
CreateFallbackObjectives ==
    /\ request # None /\ objectives = None
    /\ objectives' \in _create_comprehensive_fallback_objectives(request)
    /\ UNCHANGED <<pipelineVars, timeVars, contentVars, gatewayVars,
                   slideVars, mergeVars, fanoutVars, enhanceVars, eventVars, callVars, designVars>>

NextObjectives == CreateFallbackObjectives

SpecObjectives == InitObjectives /\ [][NextObjectives]_vars

Len_objectives == SumTo([k \in 1..6 |-> objectives.per_level[priority_order[k]]], 6)

(* C21: the objectives of the plan include at least one objective of       *)
(* every Bloom level the request selected, also when they come from the    *)
(* deterministic fallback.                                                 *)
EverySelectedLevelCovered ==
    objectives # None =>
        \A l \in request.selected_bloom_levels : objectives.per_level[l] >= 1

(* Six levels selected for a short lesson: the fallback list has three     *)
(* objectives.                                                             *)
SelectedLevelLeftOut ==
    /\ objectives # None
    /\ request.selected_bloom_levels = BloomLevels
    /\ objectives.total_objectives = 3
    /\ \E l \in BloomLevels : objectives.per_level[l] = 0

(* C29: the per-level counts of _distribute_objectives_pedagogically sum   *)
(* to the requested total, so the fallback list has exactly the number of  *)
(* objectives _calculate_optimal_objectives_count returned.                *)
FallbackCountIsOptimalCount ==
    objectives # None => Len_objectives = objectives.total_objectives

(* One level selected for a long lesson: six objectives asked for, two in  *)
(* the list.                                                               *)
FallbackShortOfOptimalCount ==
    /\ objectives # None
    /\ request.selected_bloom_levels = {"create"}
    /\ objectives.total_objectives = 6
    /\ Len_objectives = 2

-----------------------------------------------------------------------------
(* Phase 2 with its deadline: the Coordinator's asyncio.wait_for around    *)
(* the content phase, and inside it the asyncio.gather of                  *)
(* generate_slides_for_all_events over one task per event.                 *)

(* How _generate_slides_for_event ends for one event: with the slides of   *)
(* the generation loop, or with the fallback slides its own handler builds *)
(* for this event.                                                         *)
TaskResults == {"generated", "event_fallback"}

InitFanOut ==
    /\ design_slides = None
    /\ design_report = None
    /\ generation_attempt = None
    /\ gateway_attempt = None
    /\ call_log = None
    /\ generation_result = None
    /\ gagne_events = None
    /\ heap = None
    /\ slide_dicts = None
    /\ received = None
    /\ enhanced_slides = None
    /\ enhanced_by = None
    /\ svc = None /\ pc = None /\ elapsed = None /\ stage = None
    /\ plan_failures = None /\ plan_data = None /\ content_data = None
    /\ slides = None /\ udl_data = None /\ design_data = None
    /\ accessibility_data = None /\ response = None
    /\ request = None /\ time_distribution = None
    /\ agent_input = None /\ branch = None /\ agent_result = None
    /\ call = None /\ plan_run = None
    /\ gagne_event = None /\ slide_count = None /\ slide_run = None
    /\ event_tasks = None /\ completed = None /\ slides_response = None
    /\ slide_list = None /\ validator_runs = None
    /\ objectives = None
    /\ event_slide_tasks = [e \in 1..MaxEvents |-> "pending"]
    /\ content_wait = 0
    /\ content_by_event = None

unrelatedToFanOut ==
    <<otherVars, slideVars, mergeVars, objectiveVars, enhanceVars,
      eventVars, callVars, designVars>>

(* One task runs to its end, while the phase is being waited for.          *)
EventTaskReturns ==
    /\ content_by_event = None
    /\ \E e \in 1..MaxEvents, result \in TaskResults :
          /\ event_slide_tasks[e] = "pending"
          /\ event_slide_tasks' = [event_slide_tasks EXCEPT ![e] = result]
    /\ UNCHANGED <<content_wait, content_by_event, unrelatedToFanOut>>

(* A minute passes with a task still running.  Nothing around a single     *)
(* task measures it: the only timer is the one of the whole phase.         *)
ContentWaits ==
    /\ content_by_event = None
    /\ \E e \in 1..MaxEvents : event_slide_tasks[e] = "pending"
    /\ content_wait < ContentTimeout
    /\ content_wait' = content_wait + 1
    /\ UNCHANGED <<event_slide_tasks, content_by_event, unrelatedToFanOut>>

(* asyncio.gather returns when every task has, and the Coordinator takes   *)
(* content_result["data"].                                                 *)
ContentGathered ==
    /\ content_by_event = None
    /\ \A e \in 1..MaxEvents : event_slide_tasks[e] # "pending"
    /\ content_by_event' = event_slide_tasks
    /\ UNCHANGED <<event_slide_tasks, content_wait, unrelatedToFanOut>>

(* except asyncio.TimeoutError: content_data = _create_fallback_content(   *)
(* gagne_events, ...): two fallback slides for every event, whatever its   *)
(* task had returned.                                                      *)
content_after_timeout(tasks) == [e \in 1..MaxEvents |-> "stage_fallback"]

(* The deadline of the phase expires: wait_for cancels the phase, and with *)
(* it the gather and the tasks still running.                              *)
ContentWaitExpires ==
    /\ content_by_event = None
    /\ \E e \in 1..MaxEvents : event_slide_tasks[e] = "pending"
    /\ content_wait = ContentTimeout
    /\ event_slide_tasks' =
          [e \in 1..MaxEvents |->
              IF event_slide_tasks[e] = "pending" THEN "cancelled"
              ELSE event_slide_tasks[e]]
    /\ content_by_event' = content_after_timeout(event_slide_tasks)
    /\ UNCHANGED <<content_wait, unrelatedToFanOut>>

NextFanOut ==
    \/ EventTaskReturns
    \/ ContentWaits
    \/ ContentGathered
    \/ ContentWaitExpires

SpecFanOut == InitFanOut /\ [][NextFanOut]_vars

-----------------------------------------------------------------------------
(* The validators' enhancement and the objects it works on.  A slide is a  *)
(* dictionary whose list-valued keys hold references: heap maps the        *)
(* address of a list object to its contents.  The Coordinator hands the    *)
(* UDL agent the dictionaries of slide.dict(), and each later validator    *)
(* the dictionaries the validator before it returned.                      *)

ListLen == 2     \* len(slides)

ListKeys == {"visual_elements", "udl_guidelines", "accessibility_features"}

(* Address of a list object: the slide whose dictionary first referred to  *)
(* it, the key, and whether slide.dict() built it (0) or                   *)
(* _enhance_representation did (1).                                        *)
Addresses == (1..ListLen) \X ListKeys \X {0, 1}

(* A visual element, itself a dictionary inside the list: its type,        *)
(* whether it has an alt_text, and the enhancements that assigned keys     *)
(* on it.                                                                  *)
Element(type, alt_text) ==
    [type |-> type, alt_text |-> alt_text, styled_by |-> {}]

(* The visual_elements a generated slide can come with.                    *)
VisualForms ==
    {<<>>, <<Element("image", FALSE)>>, <<Element("diagram", TRUE)>>}

(* The dictionary of slide i as built by slide.dict().                     *)
SlideDict(i) ==
    [main_content           |-> <<>>,
     visual_elements        |-> <<i, "visual_elements", 0>>,
     udl_guidelines         |-> <<i, "udl_guidelines", 0>>,
     accessibility_features |-> <<i, "accessibility_features", 0>>]

(* The contents of a list of dictionaries, references followed.            *)
Contents(list, h) ==
    [i \in DOMAIN list |->
        [main_content           |-> list[i].main_content,
         visual_elements        |-> h[list[i].visual_elements],
         udl_guidelines         |-> h[list[i].udl_guidelines],
         accessibility_features |-> h[list[i].accessibility_features]]]

InitEnhance ==
    /\ design_slides = None
    /\ design_report = None
    /\ generation_attempt = None
    /\ gateway_attempt = None
    /\ call_log = None
    /\ generation_result = None
    /\ gagne_events = None
    /\ svc = None /\ pc = None /\ elapsed = None /\ stage = None
    /\ plan_failures = None /\ plan_data = None /\ content_data = None
    /\ slides = None /\ udl_data = None /\ design_data = None
    /\ accessibility_data = None /\ response = None
    /\ request = None /\ time_distribution = None
    /\ agent_input = None /\ branch = None /\ agent_result = None
    /\ call = None /\ plan_run = None
    /\ gagne_event = None /\ slide_count = None /\ slide_run = None
    /\ event_tasks = None /\ completed = None /\ slides_response = None
    /\ slide_list = None /\ validator_runs = None
    /\ objectives = None
    /\ event_slide_tasks = None /\ content_wait = None
    /\ content_by_event = None
    /\ \E visual \in [1..ListLen -> VisualForms] :
          heap = [a \in Addresses |->
                    IF a[3] = 1 THEN None
                    ELSE IF a[2] = "visual_elements" THEN visual[a[1]]
                    ELSE <<>>]
    /\ slide_dicts = [i \in 1..ListLen |-> SlideDict(i)]
    /\ received = None
    /\ enhanced_slides = None
    /\ enhanced_by = <<>>

unrelatedToEnhance ==
    <<otherVars, slideVars, mergeVars, objectiveVars, fanoutVars,
      eventVars, callVars, designVars>>

(* enhanced_slide = slide.copy(): a new dictionary with the same values,   *)
(* so that its list-valued keys refer to the lists of the original.        *)
copy(slide) == slide

HasKey(elements, type) == \E k \in DOMAIN elements : elements[k].type = type

AppendNew(list, item) ==
    IF \E k \in DOMAIN list : list[k] = item THEN list ELSE Append(list, item)

(* for element in slide["visual_elements"]: element[...] = ...             *)
Style(elements, enhancement, types) ==
    [k \in DOMAIN elements |->
        IF elements[k].type \in types
        THEN [elements[k] EXCEPT !.styled_by = @ \cup {enhancement}]
        ELSE elements[k]]

(* _enhance_representation on the copy of slide i: an empty or missing     *)
(* visual_elements is replaced by a new list, then a diagram and a chart   *)
(* are appended to the list the key refers to.                             *)
_enhance_representation(i, slide, h) ==
    LET target == IF h[slide.visual_elements] = <<>>
                  THEN <<i, "visual_elements", 1>>
                  ELSE slide.visual_elements
        before == IF h[slide.visual_elements] = <<>> THEN <<>>
                  ELSE h[target]
        with_diagram == IF HasKey(before, "diagram") THEN before
                        ELSE Append(before, Element("diagram", TRUE))
        with_chart   == IF HasKey(with_diagram, "chart") THEN with_diagram
                        ELSE Append(with_diagram, Element("chart", TRUE))
    IN  [slide |-> [slide EXCEPT !.visual_elements = target],
         heap  |-> [h EXCEPT ![target] = with_chart]]

(* The body of the loop of _enhance_slides_with_udl for slide i.           *)
udl_enhanced(i, slide, h, representation) ==
    LET e1 == IF representation THEN _enhance_representation(i, copy(slide), h)
              ELSE [slide |-> copy(slide), heap |-> h]
        guidelines == e1.slide.udl_guidelines
    IN  [slide |-> e1.slide,
         heap  |-> [e1.heap EXCEPT
                       ![guidelines] =
                           AppendNew(AppendNew(AppendNew(@,
                               "multiple_representation"),
                               "multiple_means_action"),
                               "engagement_strategies")]]

DesignEnhancements == {"contrast", "repetition", "alignment", "proximity"}

(* The element types an enhancement of the Design agent assigns keys on.   *)
StyledTypes(enhancement) ==
    IF enhancement = "contrast" THEN {"image", "text"}
    ELSE {"image", "text", "diagram", "chart"}

RECURSIVE StyleAll(_, _)
StyleAll(elements, enhancements) ==
    IF enhancements = {} THEN elements
    ELSE LET en == CHOOSE x \in enhancements : TRUE
         IN  StyleAll(Style(elements, en, StyledTypes(en)),
                      enhancements \ {en})

(* The body of the loop of _enhance_slides_with_design: the enhancements   *)
(* whose score is under 0.7 rewrite main_content on the copy and assign    *)
(* keys on the elements of its visual_elements.                            *)
design_enhanced(i, slide, h, enhancements) ==
    [slide |-> [copy(slide) EXCEPT
                   !.main_content =
                       IF enhancements = {} THEN @ ELSE Append(@, "design")],
     heap  |-> [h EXCEPT ![slide.visual_elements] = StyleAll(@, enhancements)]]

AccessibilityEnhancements ==
    {"perceivable", "operable", "understandable", "robust"}

RECURSIVE ExtendAll(_, _)
ExtendAll(features, enhancements) ==
    IF enhancements = {} THEN features
    ELSE LET en == CHOOSE x \in enhancements : TRUE
         IN  ExtendAll(Append(features, en), enhancements \ {en})

(* The body of the loop of _enhance_slides_with_accessibility: every       *)
(* enhancement extends slide["accessibility_features"] (each by its own    *)
(* features, kept here as the name of the enhancement), and                *)
(* _enhance_perceivable gives the elements without alt_text one.           *)
accessibility_enhanced(i, slide, h, enhancements) ==
    [slide |-> [copy(slide) EXCEPT
                   !.main_content =
                       IF enhancements = {} THEN @
                       ELSE Append(@, "accessibility")],
     heap  |-> [h EXCEPT
                  ![slide.visual_elements] =
                      IF "perceivable" \in enhancements
                      THEN [k \in DOMAIN @ |-> [@[k] EXCEPT !.alt_text = TRUE]]
                      ELSE @,
                  ![slide.accessibility_features] =
                      ExtendAll(@, enhancements)]]

(* The loop over the slides: each body works on the heap the one before    *)
(* it left.  Returns the enhanced list and the heap.                       *)
RECURSIVE enhance_loop(_, _, _, _, _)
enhance_loop(v, list, k, choice, acc) ==
    IF k > Len(list) THEN acc
    ELSE LET e == CASE v = "udl" ->
                        udl_enhanced(k, list[k], acc.heap, choice)
                    [] v = "design" ->
                        design_enhanced(k, list[k], acc.heap, choice)
                    [] v = "accessibility" ->
                        accessibility_enhanced(k, list[k], acc.heap, choice)
         IN  enhance_loop(v, list, k + 1, choice,
                          [slides |-> Append(acc.slides, e.slide),
                           heap   |-> e.heap])

(* One validator runs on the list it is handed.                            *)
Enhance(v, list, choice) ==
    LET result == enhance_loop(v, list, 1, choice,
                               [slides |-> <<>>, heap |-> heap])
    IN  /\ slide_dicts' = list
        /\ received' = Contents(list, heap)
        /\ heap' = result.heap
        /\ enhanced_slides' = result.slides
        /\ enhanced_by' = Append(enhanced_by, v)
        /\ UNCHANGED unrelatedToEnhance

(* UDLAgent.process on the dictionaries of udl_input.  representation says *)
(* whether representation_score is under 0.7.                              *)
EnhanceWithUDL ==
    /\ enhanced_by = <<>>
    /\ \E representation \in BOOLEAN :
          Enhance("udl", slide_dicts, representation)

(* DesignAgent.process on the list the UDL agent returned.                 *)
EnhanceWithDesign ==
    /\ enhanced_by = <<"udl">>
    /\ \E enhancements \in SUBSET DesignEnhancements :
          Enhance("design", enhanced_slides, enhancements)

(* AccessibilityAgent.process on the list the Design agent returned.       *)
EnhanceWithAccessibility ==
    /\ enhanced_by = <<"udl", "design">>
    /\ \E enhancements \in SUBSET AccessibilityEnhancements :
          Enhance("accessibility", enhanced_slides, enhancements)

NextEnhance ==
    \/ EnhanceWithUDL
    \/ EnhanceWithDesign
    \/ EnhanceWithAccessibility

SpecEnhance == InitEnhance /\ [][NextEnhance]_vars

(* C23: a validator does not modify the list it receives: after its        *)
(* processing the input slides, nested lists included, are as they were    *)
(* when it received them, and only the returned copy differs.              *)
InputSlidesUnchanged ==
    enhanced_slides # None => Contents(slide_dicts, heap) = received

(* The UDL agent returned, and the udl_guidelines of the dictionaries it   *)
(* had been handed hold the three guidelines it appended.                  *)
InputGuidelinesAppended ==
    /\ enhanced_by = <<"udl">>
    /\ received[1].udl_guidelines = <<>>
    /\ Len(heap[slide_dicts[1].udl_guidelines]) = 3

-----------------------------------------------------------------------------
(* The Plan agent's events: _generate_gagne_events with the reply of the   *)
(* external service, for the requests of lessons of up to an hour.         *)

MaxLessonMinutes == 60   \* duration_minutes of the requests followed here
MaxReplyEvents   == 10   \* len(events_data) of a reply is unbounded

PlanRequests == {req \in Requests : req.duration_minutes <= MaxLessonMinutes}

(* What comes back for the events prompt: the gateway raised, the reply    *)
(* did not parse as a JSON array, or it was an array of `count` events     *)
(* whose duration_minutes are those of the prompt ("as_prompted") or not   *)
(* ("other": one more minute for event 4).                                 *)
EventReplies ==
    {[kind |-> "raised"], [kind |-> "not_an_array"]}
    \cup [kind : {"array"}, count : 8..MaxReplyEvents,
          minutes : {"as_prompted", "other"}]

(* events_data of an array reply, as far as it is read: duration_minutes   *)
(* of each event.  An event beyond the ninth of the prompt has a minute.   *)
events_data(reply, td) ==
    [i \in 1..reply.count |->
        IF i > 9 THEN 1
        ELSE IF reply.minutes = "other" /\ i = 4 THEN td[i] + 1
        ELSE td[i]]

(* _create_fallback_gagne_events: nine events with the computed minutes.   *)
_create_fallback_gagne_events(td) ==
    [source |-> "fallback", duration_minutes |-> td]

(* The list _generate_gagne_events returns: one GagneEvent per event of    *)
(* events_data, unless the call failed or len(events_data) < 9.            *)
gagne_events_of(reply, td) ==
    IF reply.kind = "array" /\ ~(reply.count < 9)
    THEN [source |-> "generated", duration_minutes |-> events_data(reply, td)]
    ELSE _create_fallback_gagne_events(td)

InitEvents ==
    /\ design_slides = None
    /\ design_report = None
    /\ generation_attempt = None
    /\ gateway_attempt = None
    /\ call_log = None
    /\ generation_result = None
    /\ svc = None /\ pc = None /\ elapsed = None /\ stage = None
    /\ plan_failures = None /\ plan_data = None /\ content_data = None
    /\ slides = None /\ udl_data = None /\ design_data = None
    /\ accessibility_data = None /\ response = None
    /\ agent_input = None /\ branch = None /\ agent_result = None
    /\ call = None /\ plan_run = None
    /\ gagne_event = None /\ slide_count = None /\ slide_run = None
    /\ event_tasks = None /\ completed = None /\ slides_response = None
    /\ slide_list = None /\ validator_runs = None
    /\ objectives = None
    /\ event_slide_tasks = None /\ content_wait = None
    /\ content_by_event = None
    /\ heap = None /\ slide_dicts = None /\ received = None
    /\ enhanced_slides = None /\ enhanced_by = None
    /\ request \in PlanRequests
    /\ time_distribution = None
    /\ gagne_events = None

(* _generate_gagne_events: the time distribution for the prompt, the call, *)
(* and the list built from the reply or by the fallback.                   *)
GenerateGagneEvents ==
    /\ gagne_events = None
    /\ \E td \in _calculate_gagne_time_distribution(request),
          reply \in EventReplies :
          /\ time_distribution' = td
          /\ gagne_events' = gagne_events_of(reply, td)
    /\ UNCHANGED <<request, pipelineVars, contentVars, gatewayVars, slideVars,
                   mergeVars, objectiveVars, fanoutVars, enhanceVars, callVars, designVars>>

NextEvents == GenerateGagneEvents

SpecEvents == InitEvents /\ [][NextEvents]_vars

(* C24: the plan's events are exactly nine, their minutes are those of the *)
(* computed time allocation and so sum to the duration of the lesson, also *)
(* when the events are taken from the reply of the external service.       *)
NineEventsWithAllocatedMinutes ==
    gagne_events # None =>
        /\ Len(gagne_events.duration_minutes) = 9
        /\ gagne_events.duration_minutes = time_distribution
        /\ SumTo(gagne_events.duration_minutes, 9) = request.duration_minutes

(* A reply of ten events was taken as the plan's events.                   *)
TenEventsTaken ==
    /\ gagne_events # None
    /\ gagne_events.source = "generated"
    /\ Len(gagne_events.duration_minutes) = 10

-----------------------------------------------------------------------------
(* C25: CoordinatorAgent.process never raises.  Once it has ended on its   *)
(* own it has returned a response; an exception that left a phase (the     *)
(* Plan stage failing or exceeding its deadline) has become a response     *)
(* with success = False; and generate_lesson_content raises an error for   *)
(* every such response instead of returning it.                            *)
ProcessReturnsErrors ==
    /\ pc = "done" <=> response # NoResponse
    /\ pc = "done" /\ stage.plan \in {"failed", "timeout"}
          => ~response.success
    /\ pc = "done" /\ ~response.success => svc \in {"waiting", "raised"}

(* The Plan stage exceeded its deadline, process returned the error        *)
(* response and the service raised it.                                     *)
PlanTimeoutRaisedByService ==
    /\ pc = "done"
    /\ stage.plan = "timeout"
    /\ response.success = FALSE
    /\ svc = "raised"
    /\ \A s \in Stages \ {"plan"} : stage[s] = "pending"

-----------------------------------------------------------------------------
(* The pipeline under fairness: a step that can be taken is taken.  Every  *)
(* await of process is under an asyncio.wait_for, so that as long as the   *)
(* run has not ended either the awaited stage returns or one of the two    *)
(* timers over it expires.                                                 *)
FairSpec == Spec /\ WF_vars(Next)

(* Every run ends: generate_lesson_content returns or raises.              *)
RunEnds == <>(svc \in {"returned", "raised"})

-----------------------------------------------------------------------------
(* The generation of one event's slides call by call: the three passes of  *)
(* _create_ai_generated_slides, each of them one _call_openai of up to     *)
(* max_retries calls of the external service.                              *)

(* What one call of client.chat.completions.create ends with: content (of  *)
(* one of the kinds a pass tells apart), no content (ValueError), or an    *)
(* exception of the client.                                                *)
ContentKinds ==
    {"valid", "missing_fields", "wrong_count", "wrong_type", "not_json"}
CallFailures == {"empty", "api_error"}

InitCalls ==
    /\ design_slides = None
    /\ design_report = None
    /\ svc = None /\ pc = None /\ elapsed = None /\ stage = None
    /\ plan_failures = None /\ plan_data = None /\ content_data = None
    /\ slides = None /\ udl_data = None /\ design_data = None
    /\ accessibility_data = None /\ response = None
    /\ request = None /\ time_distribution = None
    /\ agent_input = None /\ branch = None /\ agent_result = None
    /\ call = None /\ plan_run = None
    /\ gagne_event = None /\ slide_count = None /\ slide_run = None
    /\ event_tasks = None /\ completed = None /\ slides_response = None
    /\ slide_list = None /\ validator_runs = None
    /\ objectives = None
    /\ event_slide_tasks = None /\ content_wait = None
    /\ content_by_event = None
    /\ heap = None /\ slide_dicts = None /\ received = None
    /\ enhanced_slides = None /\ enhanced_by = None
    /\ gagne_events = None
    /\ generation_attempt = 0
    /\ gateway_attempt = 0
    /\ call_log = <<>>
    /\ generation_result = "pending"

unrelatedToCalls ==
    <<otherVars, slideVars, mergeVars, objectiveVars, fanoutVars,
      enhanceVars, eventVars, designVars>>

(* A loop that would go round once more than the code's.                   *)
continues_once_more(attempt) == attempt < 3

(* `if attempt < 2: continue` of the generation loop.                      *)
continues(attempt) == attempt < 2

(* The pass in progress ends without slides and without a fatal error:     *)
(* the next pass starts, or the third pass returns what it is left with.   *)
NextPassOr(last) ==
    IF continues(generation_attempt)
    THEN /\ generation_attempt' = generation_attempt + 1
         /\ gateway_attempt' = 0
         /\ UNCHANGED generation_result
    ELSE /\ generation_result' = last
         /\ UNCHANGED <<generation_attempt, gateway_attempt>>

(* A call fails before the last attempt of the gateway: sleep, next call.  *)
ExternalCallFails ==
    /\ generation_result = "pending"
    /\ ~is_last_attempt(gateway_attempt)
    /\ \E failure \in CallFailures : call_log' = Append(call_log, failure)
    /\ gateway_attempt' = gateway_attempt + 1
    /\ UNCHANGED <<generation_attempt, generation_result, unrelatedToCalls>>

(* The last attempt of the gateway fails: _call_openai raises what the     *)
(* call raised.  A ValueError ends the pass like an unparsable reply; any  *)
(* other exception reaches the outer handler, which returns the fallback   *)
(* slides.                                                                 *)
ExternalCallFailsLast ==
    /\ generation_result = "pending"
    /\ is_last_attempt(gateway_attempt)
    /\ \E failure \in CallFailures :
          /\ call_log' = Append(call_log, failure)
          /\ IF AttemptResult(IF failure = "empty" THEN "empty" ELSE "error")
                  = "retryable"
             THEN NextPassOr("fallback")
             ELSE /\ generation_result' = "fallback"
                  /\ UNCHANGED <<generation_attempt, gateway_attempt>>
    /\ UNCHANGED unrelatedToCalls

(* A call returns content: _call_openai returns it and the pass parses it. *)
ExternalCallReturns ==
    /\ generation_result = "pending"
    /\ \E reply \in ContentKinds :
          /\ call_log' = Append(call_log, reply)
          /\ CASE AttemptResult(reply) = "slides" ->
                    /\ generation_result' = "generated"
                    /\ UNCHANGED <<generation_attempt, gateway_attempt>>
               [] AttemptResult(reply) = "wrong_count" ->
                    NextPassOr("generated")
               [] AttemptResult(reply) = "retryable" ->
                    NextPassOr("fallback")
    /\ UNCHANGED unrelatedToCalls

NextCalls ==
    \/ ExternalCallFails
    \/ ExternalCallFailsLast
    \/ ExternalCallReturns

SpecCalls == InitCalls /\ [][NextCalls]_vars

(* C28: for one event the Content stage makes at most 9 calls of the       *)
(* external service (3 passes, each a gateway call of at most 3 attempts)  *)
(* before it returns generated or fallback slides; no sequence of replies  *)
(* makes it call a tenth time.                                             *)
AtMostNineExternalCalls ==
    /\ Len(call_log) <= 9
    /\ generation_attempt < 3 /\ gateway_attempt < max_retries
    /\ Len(call_log) = 9 => generation_result # "pending"

(* Nine calls were made, none of the first eight returned usable slides,   *)
(* and the ninth ended the generation with the fallback slides.            *)
NineCallsThenFallback ==
    /\ Len(call_log) = 9
    /\ generation_result = "fallback"
    /\ \A k \in 1..9 : call_log[k] \in CallFailures

-----------------------------------------------------------------------------
(* The Design agent's heuristics on slides: _validate_contrast,            *)
(* _validate_alignment and _validate_proximity, the report of              *)
(* _validate_crap_principles and the recommendations made from it.         *)

DesignListLen == 2     \* len(slides) of the lists followed here

(* Scores here are exact: 1.0 is Fine units, which every division of the   *)
(* heuristics (by 3 or 4 checks, by up to 4 passed checks, by up to 6      *)
(* valid slides) leaves whole.                                             *)
Fine == 144 * One
Tenths(k) == (k * Fine) \div 10
Hundredths(k) == (k * Fine) \div 100

(* What the heuristics read of a slide's main_content, for six contents:   *)
(*   empty       ""                                                        *)
(*   word        "Queue"                                                   *)
(*   sentence    "A queue keeps its items in order."                       *)
(*   paragraphs  "First\n\nSecond"                                         *)
(*   list        "- enqueue\n- dequeue"                                    *)
(*   rich        "## Queues\n\n**FIFO** order is clear: color and contrast *)
(*                highlight the front.\n\n- enqueue adds an item\n1. peek" *)
(* bold: "**", "<b>" or "<strong>" occurs; hash: "#" occurs; bullets: a    *)
(* bullet, "-" or "*" occurs; contrast_words, accessibility_words: one of  *)
(* the keywords occurs; heading_count, list_count, color_mentions: how     *)
(* many of the indicators occur; length: len(content); newlines, breaks,   *)
(* spaces: content.count of "\n", "\n\n" and " "; sentence_count,          *)
(* formatting_count: the summed counts of the indicators.                  *)
MainContents ==
    [empty |->
        [bold |-> FALSE, hash |-> FALSE, bullets |-> FALSE,
         contrast_words |-> FALSE, heading_count |-> 0, list_count |-> 0,
         color_mentions |-> 0, accessibility_words |-> FALSE, length |-> 0,
         newlines |-> 0, breaks |-> 0, sentence_count |-> 0,
         formatting_count |-> 0, spaces |-> 0],
     word |->
        [bold |-> FALSE, hash |-> FALSE, bullets |-> FALSE,
         contrast_words |-> FALSE, heading_count |-> 0, list_count |-> 0,
         color_mentions |-> 0, accessibility_words |-> FALSE, length |-> 5,
         newlines |-> 0, breaks |-> 0, sentence_count |-> 0,
         formatting_count |-> 0, spaces |-> 0],
     sentence |->
        [bold |-> FALSE, hash |-> FALSE, bullets |-> FALSE,
         contrast_words |-> FALSE, heading_count |-> 0, list_count |-> 0,
         color_mentions |-> 0, accessibility_words |-> FALSE,
         length |-> 33, newlines |-> 0, breaks |-> 0, sentence_count |-> 1,
         formatting_count |-> 0, spaces |-> 6],
     paragraphs |->
        [bold |-> FALSE, hash |-> FALSE, bullets |-> FALSE,
         contrast_words |-> FALSE, heading_count |-> 0, list_count |-> 0,
         color_mentions |-> 0, accessibility_words |-> FALSE,
         length |-> 13, newlines |-> 2, breaks |-> 1, sentence_count |-> 0,
         formatting_count |-> 0, spaces |-> 0],
     list |->
        [bold |-> FALSE, hash |-> FALSE, bullets |-> TRUE,
         contrast_words |-> FALSE, heading_count |-> 0, list_count |-> 1,
         color_mentions |-> 0, accessibility_words |-> FALSE,
         length |-> 19, newlines |-> 1, breaks |-> 0, sentence_count |-> 0,
         formatting_count |-> 0, spaces |-> 2],
     rich |->
        [bold |-> TRUE, hash |-> TRUE, bullets |-> TRUE,
         contrast_words |-> TRUE, heading_count |-> 4, list_count |-> 3,
         color_mentions |-> 4, accessibility_words |-> TRUE,
         length |-> 107, newlines |-> 5, breaks |-> 2,
         sentence_count |-> 2, formatting_count |-> 6, spaces |-> 15]]

(* A slide as the heuristics read it: whether it has a title, its          *)
(* main_content, and whether one of its visual elements has an alt_text of *)
(* more than 10 characters.                                                *)
DesignSlides ==
    [title : BOOLEAN, main_content : DOMAIN MainContents, alt_text : BOOLEAN]

SlideLists ==
    UNION {[1..n -> DesignSlides] : n \in 1..DesignListLen}

If(condition, score) == IF condition THEN score ELSE 0

(* _analyze_text_contrast: four indicators over four checks.               *)
_analyze_text_contrast(slide) ==
    LET content == MainContents[slide.main_content]
    IN  (If(content.bold, Tenths(3))
         + If(content.hash \/ slide.title, Tenths(3))
         + If(content.bullets, Tenths(2))
         + If(content.contrast_words, Tenths(2))) \div 4

(* _analyze_heading_hierarchy: title, headings and lists over three        *)
(* checks.                                                                 *)
_analyze_heading_hierarchy(slide) ==
    LET content == MainContents[slide.main_content]
    IN  (If(slide.title, Tenths(4))
         + If(content.heading_count > 0,
              Min(Tenths(4), content.heading_count * Tenths(1)))
         + If(content.list_count > 0,
              Min(Tenths(2), content.list_count * Hundredths(5)))) \div 3

(* _analyze_color_usage: colour words, an alt_text and accessibility words *)
(* over three checks.                                                      *)
_analyze_color_usage(slide) ==
    LET content == MainContents[slide.main_content]
    IN  (If(content.color_mentions > 0,
            Min(Tenths(3), content.color_mentions * Tenths(1)))
         + If(slide.alt_text, Tenths(2))
         + If(content.accessibility_words, Tenths(2))) \div 3

(* _analyze_text_readability: length, paragraphs, sentences and formatting *)
(* over four checks.                                                       *)
_analyze_text_readability(slide) ==
    LET content == MainContents[slide.main_content]
    IN  ((IF 50 <= content.length /\ content.length <= 500 THEN Tenths(3)
          ELSE IF content.length > 50 THEN Tenths(2) ELSE 0)
         + If(content.breaks + content.newlines > 0, Tenths(2))
         + If(content.sentence_count > 0, Tenths(2))
         + If(content.formatting_count > 0, Tenths(3))) \div 4

(* A slide's score before it is divided by the checks passed.              *)
undivided(slide_score, checks_passed) == slide_score

(* slide_score / checks_passed.                                            *)
per_check(slide_score, checks_passed) == slide_score \div checks_passed

(* The scores of one slide's checks, as [slide_score, checks_passed].      *)
Passed(scores) ==
    [slide_score   |-> SumTo(scores, Len(scores)),
     checks_passed |-> Cardinality({k \in DOMAIN scores : scores[k] > 0})]

(* The body of the loop of _validate_contrast: the four analyses, those    *)
(* above 0 counted.                                                        *)
contrast_checks(slide) ==
    Passed(<<_analyze_text_contrast(slide), _analyze_heading_hierarchy(slide),
             _analyze_color_usage(slide), _analyze_text_readability(slide)>>)

(* The body of the loop of _validate_alignment.                            *)
alignment_checks(slide) ==
    LET content == MainContents[slide.main_content]
    IN  Passed(<<If(slide.title, Tenths(4)),
                 If(content.length > 0 /\ content.newlines > 0, Tenths(3)),
                 If(content.length > 0 /\ content.breaks > 0, Tenths(3))>>)

(* The body of the loop of _validate_proximity.                            *)
proximity_checks(slide) ==
    LET content == MainContents[slide.main_content]
    IN  Passed(<<If(content.length > 0 /\ content.breaks > 0, Tenths(4)),
                 If(content.length > 0 /\ content.list_count > 0, Tenths(3)),
                 If(content.length > 0
                    /\ 10 * content.spaces > content.length, Tenths(3))>>)

(* The loop the three heuristics share: the mean, over the slides with a   *)
(* passed check, of slide_score / checks_passed; 0.0 without such a slide. *)
mean_of_slides(checks) ==
    LET valid == {k \in DOMAIN checks : checks[k].checks_passed > 0}
        total_score ==
            SumTo([k \in DOMAIN checks |->
                      IF k \in valid
                      THEN per_check(checks[k].slide_score,
                                     checks[k].checks_passed)
                      ELSE 0], Len(checks))
    IN  IF valid = {} THEN 0 ELSE total_score \div Cardinality(valid)

_validate_contrast(list) ==
    mean_of_slides([k \in DOMAIN list |-> contrast_checks(list[k])])
_validate_alignment(list) ==
    mean_of_slides([k \in DOMAIN list |-> alignment_checks(list[k])])
_validate_proximity(list) ==
    mean_of_slides([k \in DOMAIN list |-> proximity_checks(list[k])])

(* _validate_repetition: 1.0 for a single slide.  The consistency analyses *)
(* of longer lists are not followed here: their score is one of these,     *)
(* within the [0, 1] the report model admits.                              *)
_validate_repetition(list) ==
    IF Len(list) < 2 THEN {Fine} ELSE {0, Fine \div 2, Fine}

(* The report of _validate_crap_principles with exact scores, and the list *)
(* _generate_design_recommendations makes from it.  For the latter the     *)
(* scores are cut to the units of Threshold, which leaves every comparison *)
(* with 0.7 as it is.                                                      *)
DesignReports(list) ==
    {LET contrast  == _validate_contrast(list)
         alignment == _validate_alignment(list)
         proximity == _validate_proximity(list)
     IN  [contrast_score   |-> contrast,
          repetition_score |-> repetition,
          alignment_score  |-> alignment,
          proximity_score  |-> proximity,
          overall_score    |->
              (contrast + repetition + alignment + proximity) \div 4,
          recommendations  |->
              _generate_design_recommendations(
                  [contrast_score   |-> (contrast * One) \div Fine,
                   repetition_score |-> (repetition * One) \div Fine,
                   alignment_score  |-> (alignment * One) \div Fine,
                   proximity_score  |-> (proximity * One) \div Fine])] :
     repetition \in _validate_repetition(list)}

InitDesign ==
    /\ svc = None /\ pc = None /\ elapsed = None /\ stage = None
    /\ plan_failures = None /\ plan_data = None /\ content_data = None
    /\ slides = None /\ udl_data = None /\ design_data = None
    /\ accessibility_data = None /\ response = None
    /\ request = None /\ time_distribution = None
    /\ agent_input = None /\ branch = None /\ agent_result = None
    /\ call = None /\ plan_run = None
    /\ gagne_event = None /\ slide_count = None /\ slide_run = None
    /\ event_tasks = None /\ completed = None /\ slides_response = None
    /\ slide_list = None /\ validator_runs = None
    /\ objectives = None
    /\ event_slide_tasks = None /\ content_wait = None
    /\ content_by_event = None
    /\ heap = None /\ slide_dicts = None /\ received = None
    /\ enhanced_slides = None /\ enhanced_by = None
    /\ gagne_events = None
    /\ generation_attempt = None /\ gateway_attempt = None
    /\ call_log = None /\ generation_result = None
    /\ design_slides \in SlideLists
    /\ design_report = None

(* DesignAgent.process up to the recommendations.                          *)
ValidateDesign ==
    /\ design_report = None
    /\ design_report' \in DesignReports(design_slides)
    /\ UNCHANGED <<design_slides, otherVars, slideVars, mergeVars,
                   objectiveVars, fanoutVars, enhanceVars, eventVars,
                   callVars>>

NextDesign == ValidateDesign

SpecDesign == InitDesign /\ [][NextDesign]_vars

(* C30 as stated: for every non-empty slide list the contrast, alignment   *)
(* and proximity scores are each at most 1/3, hence under the threshold of *)
(* 0.7; the overall score never reaches 0.7 and the recommendations are    *)
(* never empty.                                                            *)
DesignScoresAtMostOneThird ==
    design_report # None =>
        /\ 3 * design_report.contrast_score  <= Fine
        /\ 3 * design_report.alignment_score <= Fine
        /\ 3 * design_report.proximity_score <= Fine
        /\ 10 * design_report.overall_score < 7 * Fine
        /\ design_report.recommendations # <<>>

(* C30: for every non-empty slide list the contrast score is at most 1/3   *)
(* and the alignment and proximity scores are at most 0.4, so that all     *)
(* three are under the threshold of 0.7; the overall score never reaches   *)
(* 0.7 and the recommendations are never empty.                            *)
DesignScoresUnderThreshold ==
    design_report # None =>
        /\ 3 * design_report.contrast_score  <= Fine
        /\ 5 * design_report.alignment_score <= 2 * Fine
        /\ 5 * design_report.proximity_score <= 2 * Fine
        /\ 10 * design_report.overall_score < 7 * Fine
        /\ Len(design_report.recommendations) >= 12

(* A titled slide whose content is a single word: the title is the only    *)
(* alignment check passed, and the alignment score is 0.4.                 *)
AlignmentAboveOneThird ==
    /\ design_report # None
    /\ Len(design_slides) = 1
    /\ design_slides[1].title /\ design_slides[1].main_content = "word"
    /\ design_report.alignment_score = Tenths(4)
    /\ design_report.recommendations # <<>>

=============================================================================
